---------------------------- MODULE Spec2Model ----------------------------
(***************************************************************************)
(* Model of the housing-affordability core: the mortgage engine           *)
(* (src/src/services/mortgage.ts), the dataset join / aggregation layer   *)
(* (src/src/services/housingData.ts) and the application reducer          *)
(* (src/src/hooks/useAppReducer.ts, src/src/components/App.tsx).          *)
(*                                                                         *)
(* Number representation.  The source computes in IEEE doubles; the model *)
(* computes in exact integer fixed point:                                 *)
(*   - money is carried in whole cents (Dollars(d) = 100 * d);            *)
(*   - downPaymentPct, frontDtiPct, backDtiPct are whole percents;        *)
(*   - interestRate and propertyTaxRate are carried in basis points       *)
(*     (6.5 % = 650), so that fractional percents stay integers;          *)
(*   - a real factor such as (1 + monthlyRate)^n is carried as an integer *)
(*     multiple of 1/FP.                                                   *)
(* A quotient a / b compared with a constant is compared by cross         *)
(* multiplication, which is exact.  Products that would leave the 32-bit  *)
(* range of the checker's integers go through MulDiv.                      *)
(***************************************************************************)
EXTENDS Integers, Sequences, FiniteSets, TLC

(* null of a nullable number: a value no amount of the model takes.  The    *)
(* source's null of a nullable string or record is NONE.                   *)
NULL == 0 - 2000000000
NONE == "null"

Dollars(d) == 100 * d

(* One unit of the fixed-point representation of a dimensionless factor:  *)
(* with FP = 1,200,000 a monthly rate of b basis points per year,         *)
(* b / 100 / 100 / 12, is exactly 10 * b units.                            *)
FP == 1200 * 1000

(***************************************************************************)
(* floor(a * b / c) for a, b >= 0 and c > 0, by long multiplication in    *)
(* base 16 on <<quotient, remainder>> so that no intermediate value       *)
(* exceeds 15 * a, 17 * c or the result.                                   *)
(***************************************************************************)
RECURSIVE MulDivQR(_, _, _)
MulDivQR(a, b, c) ==
    IF b = 0 THEN <<0, 0>>
    ELSE LET h   == MulDivQR(a, b \div 16, c)
             add == a * (b % 16)
             r   == 16 * h[2] + (add % c)
         IN  <<16 * h[1] + (add \div c) + (r \div c), r % c>>

MulDiv(a, b, c) == IF a <= b THEN MulDivQR(b, a, c)[1] ELSE MulDivQR(a, b, c)[1]

(* Math.pow(x, n) for a fixed-point x >= 1 and a natural n, by squaring.  *)
RECURSIVE Pow(_, _)
Pow(x, n) ==
    IF n = 0 THEN FP
    ELSE LET h  == Pow(x, n \div 2)
             hh == MulDiv(h, h, FP)
         IN  IF n % 2 = 1 THEN MulDiv(hh, x, FP) ELSE hh

(***************************************************************************)
(* mortgage.ts                                                             *)
(***************************************************************************)

(* PMI_RATE = 0.007, carried per mille.                                    *)
PMI_RATE == 7

(* calculateMonthlyPayment without the principal <= 0 guard: the formula  *)
(* then yields the negated payment of the absolute principal.              *)
calculateMonthlyPayment_NoPrincipalGuard(principal, annualRate, termYears) ==
    LET abs  == IF principal < 0 THEN 0 - principal ELSE principal
        sign == IF principal < 0 THEN 0 - 1 ELSE 1
    IN  IF annualRate <= 0 THEN sign * (abs \div (termYears * 12))
        ELSE LET monthlyRate == annualRate * 10
                 numPayments == termYears * 12
                 pw          == Pow(FP + monthlyRate, numPayments)
             IN  sign * MulDiv(MulDiv(abs, pw, pw - FP), monthlyRate, FP)

(* calculateMonthlyPayment(principal, annualRate, termYears): principal   *)
(* in cents, annualRate in basis points.                                   *)
calculateMonthlyPayment(principal, annualRate, termYears) ==
    IF principal <= 0 THEN 0
    ELSE IF annualRate <= 0 THEN principal \div (termYears * 12)
    ELSE LET monthlyRate == annualRate * 10
             numPayments == termYears * 12
             pw          == Pow(FP + monthlyRate, numPayments)
         IN  MulDiv(MulDiv(principal, pw, pw - FP), monthlyRate, FP)

(* calculateFullMonthlyPayment that still charges PMI at exactly 20 % down. *)
calculateFullMonthlyPayment_PmiAtTwenty(homePrice, inputs) ==
    LET loanAmount == MulDiv(homePrice, 100 - inputs.downPaymentPct, 100)
        principal  == calculateMonthlyPayment(loanAmount, inputs.interestRate,
                                              inputs.loanTermYears)
        tax        == MulDiv(homePrice, inputs.propertyTaxRate, 120000)
        insurance  == inputs.annualInsurance \div 12
        pmi        == IF inputs.downPaymentPct <= 20
                      THEN MulDiv(loanAmount, PMI_RATE, 12000) ELSE 0
        hoa        == inputs.hoaMonthly
    IN  [total     |-> principal + tax + insurance + pmi + hoa,
         principal |-> principal,
         tax       |-> tax,
         insurance |-> insurance,
         pmi       |-> pmi,
         hoa       |-> hoa]

calculateFullMonthlyPayment(homePrice, inputs) ==
    LET loanAmount == MulDiv(homePrice, 100 - inputs.downPaymentPct, 100)
        principal  == calculateMonthlyPayment(loanAmount, inputs.interestRate,
                                              inputs.loanTermYears)
        tax        == MulDiv(homePrice, inputs.propertyTaxRate, 120000)
        insurance  == inputs.annualInsurance \div 12
        pmi        == IF inputs.downPaymentPct < 20
                      THEN MulDiv(loanAmount, PMI_RATE, 12000) ELSE 0
        hoa        == inputs.hoaMonthly
    IN  [total     |-> principal + tax + insurance + pmi + hoa,
         principal |-> principal,
         tax       |-> tax,
         insurance |-> insurance,
         pmi       |-> pmi,
         hoa       |-> hoa]

(* The base (traditional DTI) tier of getAffordabilityTier: housing       *)
(* payment plus debts against gross monthly income.  dtiRatio <= pct/100  *)
(* with dtiRatio = totalDebts / (annualIncome / 12) is compared as        *)
(* totalDebts * 12 * 100 <= pct * annualIncome.                            *)
totalDebts(homePrice, inputs) ==
    calculateFullMonthlyPayment(homePrice, inputs).total + inputs.monthlyDebts

dtiWithin(homePrice, inputs, pct) ==
    totalDebts(homePrice, inputs) * 1200 <= pct * inputs.annualIncome

(* baseTier with both thresholds exclusive.                                *)
baseTier_Strict(homePrice, inputs) ==
    IF ~dtiWithin(homePrice, inputs, inputs.frontDtiPct)
       \/ totalDebts(homePrice, inputs) * 1200 = inputs.frontDtiPct * inputs.annualIncome
    THEN IF ~dtiWithin(homePrice, inputs, inputs.backDtiPct)
            \/ totalDebts(homePrice, inputs) * 1200
                   = inputs.backDtiPct * inputs.annualIncome
         THEN "unaffordable"
         ELSE "stretch"
    ELSE "affordable"

baseTier(homePrice, inputs) ==
    IF dtiWithin(homePrice, inputs, inputs.frontDtiPct) THEN "affordable"
    ELSE IF dtiWithin(homePrice, inputs, inputs.backDtiPct) THEN "stretch"
    ELSE "unaffordable"

(* MINIMUM_MONTHLY_CUSHION = 500 dollars.                                  *)
MINIMUM_MONTHLY_CUSHION == 500

(* Cash-flow thresholds 0.15 and 0.25, carried as percents.                *)
AffordableCushionPct == 15
StretchCushionPct == 25

(* Twelve times remainingCashFlow = grossMonthlyIncome - totalDebts -     *)
(* monthlySpending, which keeps annualIncome / 12 exact.                   *)
remainingCashFlow12(homePrice, inputs) ==
    inputs.annualIncome
        - 12 * (totalDebts(homePrice, inputs) + inputs.monthlySpending)

(* cashFlowPct < pct / 100, with cashFlowPct = remainingCashFlow /        *)
(* grossMonthlyIncome and annualIncome > 0.                                *)
cashFlowPctBelow(homePrice, inputs, pct) ==
    remainingCashFlow12(homePrice, inputs) * 100 < pct * inputs.annualIncome

(* cashFlowCascade with the second check chained by else-if, so that it   *)
(* never sees a tier the first chain has just downgraded.                  *)
cashFlowCascade_ElseIf(t, homePrice, inputs) ==
    LET remaining12 == remainingCashFlow12(homePrice, inputs)
    IN  IF remaining12 < 0 THEN "unaffordable"
        ELSE IF remaining12 < 12 * Dollars(MINIMUM_MONTHLY_CUSHION)
             THEN "unaffordable"
        ELSE IF /\ cashFlowPctBelow(homePrice, inputs, AffordableCushionPct)
                /\ t = "affordable"
             THEN "stretch"
        ELSE IF /\ cashFlowPctBelow(homePrice, inputs, StretchCushionPct)
                /\ t = "stretch"
             THEN "unaffordable"
        ELSE t

(* cashFlowCascade that classifies by cash flow alone, replacing the base *)
(* tier instead of downgrading it.                                         *)
cashFlowCascade_Override(t, homePrice, inputs) ==
    LET remaining12 == remainingCashFlow12(homePrice, inputs)
    IN  IF remaining12 < 12 * Dollars(MINIMUM_MONTHLY_CUSHION) THEN "unaffordable"
        ELSE IF cashFlowPctBelow(homePrice, inputs, AffordableCushionPct)
             THEN "unaffordable"
        ELSE IF cashFlowPctBelow(homePrice, inputs, StretchCushionPct)
             THEN "stretch"
        ELSE "affordable"

(* cashFlowCascade without the absolute 500-dollar floor.                  *)
cashFlowCascade_NoFloor(t, homePrice, inputs) ==
    LET remaining12 == remainingCashFlow12(homePrice, inputs)
        t1 == IF remaining12 < 0 THEN "unaffordable"
              ELSE IF /\ cashFlowPctBelow(homePrice, inputs, AffordableCushionPct)
                      /\ t = "affordable"
                   THEN "stretch"
              ELSE t
    IN  IF cashFlowPctBelow(homePrice, inputs, StretchCushionPct) /\ t1 = "stretch"
        THEN "unaffordable"
        ELSE t1

(* The if / else-if chain of the cash-flow check on the tier t, with      *)
(* remaining12 twelve times remainingCashFlow.                             *)
cashFlowChain(t, remaining12, homePrice, inputs) ==
    IF remaining12 < 0 THEN "unaffordable"
    ELSE IF remaining12 < 12 * Dollars(MINIMUM_MONTHLY_CUSHION)
         THEN "unaffordable"
    ELSE IF /\ cashFlowPctBelow(homePrice, inputs, AffordableCushionPct)
            /\ t = "affordable"
         THEN "stretch"
    ELSE t

(* The independent second if, on the tier t1 the chain has left.           *)
cashFlowSecondCheck(t1, homePrice, inputs) ==
    IF cashFlowPctBelow(homePrice, inputs, StretchCushionPct) /\ t1 = "stretch"
    THEN "unaffordable"
    ELSE t1

(* The cash-flow check of getAffordabilityTier applied to the base tier   *)
(* t: an if / else-if chain followed by an independent second if that     *)
(* re-reads the tier the chain may have changed.                           *)
cashFlowCascade(t, homePrice, inputs) ==
    cashFlowSecondCheck(
        cashFlowChain(t, remainingCashFlow12(homePrice, inputs), homePrice, inputs),
        homePrice, inputs)

(* getAffordabilityTier without the annualIncome <= 0 guard.               *)
getAffordabilityTier_NoZeroCheck(homePrice, inputs) ==
    IF homePrice = NULL \/ inputs.annualIncome = NULL
    THEN "unknown"
    ELSE LET t == baseTier(homePrice, inputs)
         IN  IF inputs.includeSpending /\ inputs.monthlySpending > 0
             THEN cashFlowCascade(t, homePrice, inputs)
             ELSE t

(* getAffordabilityTier that runs the cash-flow check whenever there is   *)
(* spending, whatever includeSpending says.                                *)
getAffordabilityTier_AlwaysSpending(homePrice, inputs) ==
    IF \/ homePrice = NULL
       \/ inputs.annualIncome = NULL
       \/ inputs.annualIncome <= 0
    THEN "unknown"
    ELSE LET t == baseTier(homePrice, inputs)
         IN  IF inputs.monthlySpending > 0
             THEN cashFlowCascade(t, homePrice, inputs)
             ELSE t

(* The tier after the optional cash-flow check on the base tier t.         *)
spendingTier(t, homePrice, inputs) ==
    IF inputs.includeSpending /\ inputs.monthlySpending > 0
    THEN cashFlowCascade(t, homePrice, inputs)
    ELSE t

getAffordabilityTier(homePrice, inputs) ==
    IF \/ homePrice = NULL
       \/ inputs.annualIncome = NULL
       \/ inputs.annualIncome <= 0
    THEN "unknown"
    ELSE spendingTier(baseTier(homePrice, inputs), homePrice, inputs)

(***************************************************************************)
(* calculateMaxHomePrice: bisection on the home price.                     *)
(* maxMonthly = (annualIncome / 12) * (frontDtiPct / 100) and             *)
(* availableForHousing = maxMonthly - monthlyDebts are compared after     *)
(* multiplying through by 1200.                                            *)
(***************************************************************************)
SOLVER_ITERATIONS == 50

(* availableForHousing <= 0 *)
noHousingBudget(inputs) ==
    inputs.annualIncome * inputs.frontDtiPct <= inputs.monthlyDebts * 1200

(* total < availableForHousing with the debts left out of the budget.      *)
belowHousingBudget_IgnoresDebts(total, inputs) ==
    total * 1200 < inputs.annualIncome * inputs.frontDtiPct

(* total < availableForHousing with the debts added to the budget instead  *)
(* of taken from it.                                                       *)
belowHousingBudget_DebtsRaiseBudget(total, inputs) ==
    (total - inputs.monthlyDebts) * 1200 < inputs.annualIncome * inputs.frontDtiPct

(* total < availableForHousing with the monthly spending taken from the    *)
(* budget when includeSpending is set.                                     *)
belowHousingBudget_CountsSpending(total, inputs) ==
    (total + inputs.monthlyDebts
       + (IF inputs.includeSpending THEN inputs.monthlySpending ELSE 0)) * 1200
        < inputs.annualIncome * inputs.frontDtiPct

(* total < availableForHousing with the budget taken from the back-end     *)
(* ratio.                                                                  *)
belowHousingBudget_BackDti(total, inputs) ==
    (total + inputs.monthlyDebts) * 1200 < inputs.annualIncome * inputs.backDtiPct

(* total < availableForHousing *)
belowHousingBudget(total, inputs) ==
    (total + inputs.monthlyDebts) * 1200 < inputs.annualIncome * inputs.frontDtiPct

(* solverStep with low moved one cent past the midpoint.                   *)
solverStep_LowPastMid(b, inputs) ==
    LET mid   == (b.low + b.high) \div 2
        total == calculateFullMonthlyPayment(mid, inputs).total
    IN  IF belowHousingBudget(total, inputs)
        THEN [low |-> mid + 1, high |-> b.high]
        ELSE [low |-> b.low, high |-> mid]

(* One iteration of the loop body on the bracket b = [low, high].          *)
solverStep(b, inputs) ==
    LET mid   == (b.low + b.high) \div 2
        total == calculateFullMonthlyPayment(mid, inputs).total
    IN  IF belowHousingBudget(total, inputs)
        THEN [low |-> mid, high |-> b.high]
        ELSE [low |-> b.low, high |-> mid]

(* n iterations of the loop body from the bracket b: the first half of     *)
(* them, then the rest from the bracket they leave, which keeps the depth  *)
(* of the evaluation logarithmic in n.                                     *)
RECURSIVE solverLoop(_, _, _)
solverLoop(b, n, inputs) ==
    IF n = 0 THEN b
    ELSE IF n = 1 THEN solverStep(b, inputs)
    ELSE CHOOSE r \in {solverLoop(half, n - n \div 2, inputs) :
                          half \in {solverLoop(b, n \div 2, inputs)}} : TRUE

(* Math.round((low + high) / 2): the midpoint in cents rounded to the     *)
(* nearest whole dollar, halves up.                                        *)
roundedMidpoint(b) == ((b.low + b.high + 100) \div 200) * 100

(* !inputs.annualIncome || inputs.annualIncome <= 0                        *)
noIncome(inputs) == inputs.annualIncome = NULL \/ inputs.annualIncome <= 0

calculateMaxHomePrice(inputs) ==
    IF noIncome(inputs) THEN 0
    ELSE IF noHousingBudget(inputs) THEN 0
    ELSE roundedMidpoint(
             solverLoop([low |-> 0, high |-> inputs.annualIncome * 10],
                        SOLVER_ITERATIONS, inputs))

(* getEffectiveMaxPrice without the manualMaxPrice > 0 test.                *)
getEffectiveMaxPrice_ManualUnchecked(inputs) ==
    IF inputs.useManualMaxPrice /\ inputs.manualMaxPrice # NULL
    THEN inputs.manualMaxPrice
    ELSE IF noIncome(inputs) THEN NULL
    ELSE calculateMaxHomePrice(inputs)

getEffectiveMaxPrice(inputs) ==
    IF /\ inputs.useManualMaxPrice
       /\ inputs.manualMaxPrice # NULL
       /\ inputs.manualMaxPrice > 0
    THEN inputs.manualMaxPrice
    ELSE IF noIncome(inputs) THEN NULL
    ELSE calculateMaxHomePrice(inputs)

(***************************************************************************)
(* housingData.ts                                                          *)
(*                                                                         *)
(* A HousingDataEntry is carried as [zip, state, medianHomeValue,          *)
(* medianRent]; name, lat, lon and fmr are copied through by the code and  *)
(* are determined by the ZIP, so they are not carried.  A null object is   *)
(* NoRecord, a null or undefined string is NONE, and a nullable cache is   *)
(* <<>> when null and <<value>> when set.                                  *)
(***************************************************************************)
NoRecord == [null |-> TRUE]

(* /data/housing-data.json without its _meta key, in Object.entries order, *)
(* and the _meta key.  99501 has no centroid and 75002 no home value.      *)
housingDataJson ==
    << [zip |-> "43001", state |-> "OH", medianHomeValue |-> Dollars(80000),
        medianRent |-> Dollars(800)],
       [zip |-> "43002", state |-> "OH", medianHomeValue |-> Dollars(200000),
        medianRent |-> NULL],
       [zip |-> "75001", state |-> "TX", medianHomeValue |-> Dollars(400000),
        medianRent |-> Dollars(1500)],
       [zip |-> "75002", state |-> "TX", medianHomeValue |-> NULL,
        medianRent |-> Dollars(1100)],
       [zip |-> "99501", state |-> "AK", medianHomeValue |-> Dollars(120000),
        medianRent |-> Dollars(1000)] >>

metaJson == "_meta"

(* /data/zip-centroids.json: the ZCTA5CE20 of each feature, in file order. *)
(* 82001 has no record in the housing table.                               *)
zipCentroidsJson == <<"43001", "43002", "75001", "75002", "82001">>

(* loadHousingData and loadCentroids: the cache when it is set, else the   *)
(* fetched table, or the empty table when the fetch fails.                 *)
loadHousingData(cache, fetched) ==
    IF cache # <<>> THEN cache
    ELSE IF fetched THEN <<housingDataJson>> ELSE << <<>> >>

(* metaCache after loadHousingData.                                        *)
loadedMeta(cache, meta, fetched) ==
    IF cache = <<>> /\ fetched THEN metaJson ELSE meta

loadCentroids(cache, fetched) ==
    IF cache # <<>> THEN cache
    ELSE IF fetched THEN <<zipCentroidsJson>> ELSE << <<>> >>

(* housingData[zip]: the record of a ZIP, NoRecord when there is none.     *)
recordOf(housingData, zip) ==
    IF \E i \in DOMAIN housingData : housingData[i].zip = zip
    THEN housingData[CHOOSE i \in DOMAIN housingData : housingData[i].zip = zip]
    ELSE NoRecord

SeqRange(s) == {s[i] : i \in DOMAIN s}

notNull(v) == v # NULL

(* [...values].sort((a, b) => a - b): v placed after the elements of the   *)
(* sorted rest that are below it.                                          *)
insertAscending(v, rest) ==
    LET k == Cardinality({i \in DOMAIN rest : rest[i] < v})
    IN  SubSeq(rest, 1, k) \o <<v>> \o SubSeq(rest, k + 1, Len(rest))

RECURSIVE sortAscending(_)
sortAscending(values) ==
    IF values = <<>> THEN <<>>
    ELSE insertAscending(Head(values), sortAscending(Tail(values)))

(* The middle of a sorted non-empty list.  The halves of an even-length    *)
(* median are halves of whole dollars, which cents hold exactly.           *)
middle(sorted) ==
    LET mid == Len(sorted) \div 2
    IN  IF Len(sorted) % 2 = 1 THEN sorted[mid + 1]
        ELSE (sorted[mid] + sorted[mid + 1]) \div 2

(* median that takes the middle of the list as it is handed in.            *)
median_NoSort(values) ==
    IF Len(values) = 0 THEN NULL ELSE middle(values)

median(values) ==
    IF Len(values) = 0 THEN NULL ELSE middle(sortAscending(values))

(* The caller's array after median(values): the sort acts on the copy      *)
(* [...values].                                                            *)
valuesAfterMedian(values) == values

SeqMin(values) == CHOOSE v \in SeqRange(values) : \A w \in SeqRange(values) : v <= w

SeqMax(values) == CHOOSE v \in SeqRange(values) : \A w \in SeqRange(values) : v >= w

(* entries.map(e => e.medianHomeValue).filter(v => v !== null), and the    *)
(* same of the rents.                                                      *)
homeValuesOf(entries) ==
    SelectSeq([i \in DOMAIN entries |-> entries[i].medianHomeValue], notNull)

rentsOf(entries) ==
    SelectSeq([i \in DOMAIN entries |-> entries[i].medianRent], notNull)

(* statsOf that counts only the entries with a home value.                 *)
statsOf_CountsValued(entries, homeValues, rents, meta) ==
    [zipCount        |-> Len(homeValues),
     medianHomeValue |-> median(homeValues),
     medianRent      |-> median(rents),
     minHomeValue    |-> IF Len(homeValues) > 0 THEN SeqMin(homeValues) ELSE NULL,
     maxHomeValue    |-> IF Len(homeValues) > 0 THEN SeqMax(homeValues) ELSE NULL,
     minRent         |-> IF Len(rents) > 0 THEN SeqMin(rents) ELSE NULL,
     maxRent         |-> IF Len(rents) > 0 THEN SeqMax(rents) ELSE NULL,
     entries         |-> entries,
     meta            |-> meta]

(* The HousingStats object of buildStats.                                  *)
statsOf(entries, homeValues, rents, meta) ==
    [zipCount        |-> Len(entries),
     medianHomeValue |-> median(homeValues),
     medianRent      |-> median(rents),
     minHomeValue    |-> IF Len(homeValues) > 0 THEN SeqMin(homeValues) ELSE NULL,
     maxHomeValue    |-> IF Len(homeValues) > 0 THEN SeqMax(homeValues) ELSE NULL,
     minRent         |-> IF Len(rents) > 0 THEN SeqMin(rents) ELSE NULL,
     maxRent         |-> IF Len(rents) > 0 THEN SeqMax(rents) ELSE NULL,
     entries         |-> entries,
     meta            |-> meta]

(* buildStats(entries); meta is the module variable metaCache at the time  *)
(* of the call.                                                            *)
buildStats(entries, meta) ==
    statsOf(entries, homeValuesOf(entries), rentsOf(entries), meta)

(* An isochrone FeatureCollection is carried as the request that produced *)
(* it, [location, mode, minutes]; pointsWithinPolygon keeps the centroids  *)
(* inside its polygon, in the order of the centroid table.                 *)
zipsWithin(isochroneGeoJson) ==
    IF isochroneGeoJson.location = "Columbus"
    THEN IF isochroneGeoJson.mode = "drive" /\ isochroneGeoJson.minutes >= 30
         THEN {"43001", "43002", "82001"}
         ELSE {"43001"}
    ELSE IF isochroneGeoJson.mode = "drive" /\ isochroneGeoJson.minutes >= 30
         THEN {"75001", "75002", "43002"}
         ELSE {}

withinPolygon(zip, isochroneGeoJson) == zip \in zipsWithin(isochroneGeoJson)

(* The entry of a matching centroid, data its record in the housing table. *)
isochroneEntry(zip, data) ==
    IF data = NoRecord
    THEN [zip |-> zip, state |-> NONE,
          medianHomeValue |-> NULL, medianRent |-> NULL]
    ELSE [zip |-> zip, state |-> data.state,
          medianHomeValue |-> data.medianHomeValue,
          medianRent |-> data.medianRent]

isochroneEntries(matchingPoints, housingData) ==
    [i \in DOMAIN matchingPoints |->
        isochroneEntry(matchingPoints[i], recordOf(housingData, matchingPoints[i]))]

getHousingForIsochrone(isochroneGeoJson, housingData, centroids, meta) ==
    IF Len(centroids) = 0 \/ Len(housingData) = 0 THEN buildStats(<<>>, meta)
    ELSE LET inside(zip) == withinPolygon(zip, isochroneGeoJson)
         IN  buildStats(isochroneEntries(SelectSeq(centroids, inside), housingData),
                        meta)

(* knownTierMarkers without the filter.                                    *)
knownTierMarkers_All(entries, affordability) ==
    [i \in DOMAIN entries |->
        [zip  |-> entries[i].zip,
         tier |-> getAffordabilityTier(entries[i].medianHomeValue, affordability)]]

(* The markers of a list of entries under affordability, the entries      *)
(* classified unknown left out.  A marker is carried as [zip, tier]: its   *)
(* lat and lon, and the medianHomeValue and medianRent that               *)
(* getAffordableForIsochrone copies into it, are the entry's.              *)
knownTierMarkers(entries, affordability) ==
    LET markerOf(entry) ==
            [zip  |-> entry.zip,
             tier |-> getAffordabilityTier(entry.medianHomeValue, affordability)]
        hasTier(marker) == marker.tier # "unknown"
    IN  SelectSeq([i \in DOMAIN entries |-> markerOf(entries[i])], hasTier)

(* The result of getAffordableForIsochrone from the stats of the join.     *)
statsWithMarkers(stats, affordability) ==
    [stats      |-> stats,
     zipMarkers |-> knownTierMarkers(stats.entries, affordability)]

getAffordableForIsochrone(isochroneGeoJson, affordability, housingData, centroids, meta) ==
    statsWithMarkers(
        getHousingForIsochrone(isochroneGeoJson, housingData, centroids, meta),
        affordability)

(* The loop of getAffordableNationwide over the raw records carries        *)
(* [allEntries, stateMap], the stateMap a sequence of                      *)
(* [state, entries, affordable, stretch, unaffordable, total] in insertion *)
(* order.                                                                  *)

(* data.state || 'Unknown'                                                 *)
stateCodeOf(data) == IF data.state = NONE THEN "Unknown" ELSE data.state

(* if (!stateMap.has(stateCode)) stateMap.set(stateCode, {...})            *)
withState(stateMap, stateCode) ==
    IF \E i \in DOMAIN stateMap : stateMap[i].state = stateCode
    THEN stateMap
    ELSE Append(stateMap, [state |-> stateCode, entries |-> <<>>,
                           affordable |-> 0, stretch |-> 0,
                           unaffordable |-> 0, total |-> 0])

indexOfState(stateMap, stateCode) ==
    CHOOSE i \in DOMAIN stateMap : stateMap[i].state = stateCode

(* tallied with only the tier unaffordable counted as unaffordable.        *)
tallied_UnknownUncounted(allEntries, stateMap, at, entry, tier) ==
    IF tier \in {"affordable", "stretch"}
    THEN [allEntries |-> Append(allEntries, entry),
          stateMap   |-> [stateMap EXCEPT ![at] =
              [@ EXCEPT !.total = @ + 1,
                        !.affordable = @ + (IF tier = "affordable" THEN 1 ELSE 0),
                        !.stretch = @ + (IF tier = "stretch" THEN 1 ELSE 0),
                        !.entries = Append(@, entry)]]]
    ELSE [allEntries |-> allEntries,
          stateMap   |-> [stateMap EXCEPT ![at] =
              [@ EXCEPT !.total = @ + 1,
                        !.unaffordable = @ + (IF tier = "unaffordable" THEN 1 ELSE 0)]]]

(* tallied with the entry retained whatever its tier.                      *)
tallied_RetainsAll(allEntries, stateMap, at, entry, tier) ==
    [allEntries |-> Append(allEntries, entry),
     stateMap   |-> [stateMap EXCEPT ![at] =
         [@ EXCEPT !.total = @ + 1,
                   !.affordable = @ + (IF tier = "affordable" THEN 1 ELSE 0),
                   !.stretch = @ + (IF tier = "stretch" THEN 1 ELSE 0),
                   !.unaffordable = @ + (IF tier \in {"affordable", "stretch"}
                                         THEN 0 ELSE 1),
                   !.entries = Append(@, entry)]]]

(* The counting of an entry with a home value into stateMap[at].           *)
tallied(allEntries, stateMap, at, entry, tier) ==
    IF tier = "affordable"
    THEN [allEntries |-> Append(allEntries, entry),
          stateMap   |-> [stateMap EXCEPT ![at] =
              [@ EXCEPT !.total = @ + 1, !.affordable = @ + 1,
                        !.entries = Append(@, entry)]]]
    ELSE IF tier = "stretch"
    THEN [allEntries |-> Append(allEntries, entry),
          stateMap   |-> [stateMap EXCEPT ![at] =
              [@ EXCEPT !.total = @ + 1, !.stretch = @ + 1,
                        !.entries = Append(@, entry)]]]
    ELSE [allEntries |-> allEntries,
          stateMap   |-> [stateMap EXCEPT ![at] =
              [@ EXCEPT !.total = @ + 1, !.unaffordable = @ + 1]]]

(* The body of the loop after the centroid test, stateMap holding the      *)
(* entry's state.                                                          *)
counted(allEntries, stateMap, data, inputs) ==
    IF data.medianHomeValue = NULL
    THEN [allEntries |-> allEntries, stateMap |-> stateMap]
    ELSE tallied(allEntries, stateMap, indexOfState(stateMap, stateCodeOf(data)),
                 [zip |-> data.zip, state |-> data.state,
                  medianHomeValue |-> data.medianHomeValue,
                  medianRent |-> data.medianRent],
                 getAffordabilityTier(data.medianHomeValue, inputs))

(* nationwideStep without the centroid test.                               *)
nationwideStep_NoCentroidTest(acc, data, centroids, inputs) ==
    counted(acc.allEntries, withState(acc.stateMap, stateCodeOf(data)),
            data, inputs)

(* One iteration of the loop.                                              *)
nationwideStep(acc, data, centroids, inputs) ==
    IF data.zip \notin SeqRange(centroids) THEN acc
    ELSE counted(acc.allEntries, withState(acc.stateMap, stateCodeOf(data)),
                 data, inputs)

RECURSIVE nationwideLoop(_, _, _, _)
nationwideLoop(n, housingData, centroids, inputs) ==
    IF n = 0 THEN [allEntries |-> <<>>, stateMap |-> <<>>]
    ELSE nationwideStep(nationwideLoop(n - 1, housingData, centroids, inputs),
                        housingData[n], centroids, inputs)

(* pctAffordable rounded down.                                             *)
pctAffordable_Truncated(info) ==
    (100 * (info.affordable + info.stretch)) \div info.total

(* Math.round(((affordable + stretch) / total) * 100), halves up.          *)
pctAffordable(info) ==
    (200 * (info.affordable + info.stretch) + info.total) \div (2 * info.total)

(* A StateAffordability; stateName is a function of state and not carried. *)
stateSummary(info) ==
    [state             |-> info.state,
     totalZips         |-> info.total,
     affordableCount   |-> info.affordable,
     stretchCount      |-> info.stretch,
     unaffordableCount |-> info.unaffordable,
     pctAffordable     |-> pctAffordable(info),
     medianHomeValue   |-> median(homeValuesOf(info.entries)),
     medianRent        |-> median(rentsOf(info.entries))]

summarized(info) == info.state # "Unknown" /\ info.total # 0

stateSummaries(counts) == [i \in DOMAIN counts |-> stateSummary(counts[i])]

(* insertByPctAffordable with s placed after the states that equal it.     *)
insertByPctAffordable_AfterEqual(s, rest) ==
    LET k == Cardinality({i \in DOMAIN rest :
                            rest[i].pctAffordable >= s.pctAffordable})
    IN  SubSeq(rest, 1, k) \o <<s>> \o SubSeq(rest, k + 1, Len(rest))

(* states.sort((a, b) => b.pctAffordable - a.pctAffordable): stable, s      *)
(* placed after the states of the sorted rest that are above it.           *)
insertByPctAffordable(s, rest) ==
    LET k == Cardinality({i \in DOMAIN rest :
                            rest[i].pctAffordable > s.pctAffordable})
    IN  SubSeq(rest, 1, k) \o <<s>> \o SubSeq(rest, k + 1, Len(rest))

RECURSIVE sortByPctAffordable(_)
sortByPctAffordable(states) ==
    IF states = <<>> THEN <<>>
    ELSE insertByPctAffordable(Head(states), sortByPctAffordable(Tail(states)))

(* What getAffordableNationwide returns once its loop has left acc.        *)
nationwideResult(acc, meta) ==
    [states     |-> sortByPctAffordable(
                        stateSummaries(SelectSeq(acc.stateMap, summarized))),
     allEntries |-> acc.allEntries,
     stats      |-> buildStats(acc.allEntries, meta)]

getAffordableNationwide(inputs, housingData, centroids, meta) ==
    nationwideResult(
        nationwideLoop(Len(housingData), housingData, centroids, inputs), meta)

(***************************************************************************)
(* hooks/useAppReducer.ts                                                  *)
(*                                                                         *)
(* A GeoJSON document is carried as the name of what it holds: stateGeoJson *)
(* is "us-states", zctaGeoJson a state code or "all".  A FocusZip is        *)
(* carried as [zip]: lat and lon are the ZIP's and the timestamp _t only   *)
(* makes two selections of the same ZIP distinct objects.                  *)
(***************************************************************************)
initialAppState ==
    [searchMode           |-> "address",
     location             |-> NONE,
     isochrone            |-> NoRecord,
     mode                 |-> "drive",
     minutes              |-> 30,
     loading              |-> FALSE,
     housingLoading       |-> FALSE,
     zctaLoading          |-> FALSE,
     housingStats         |-> NoRecord,
     stateGeoJson         |-> NONE,
     stateData            |-> <<>>,
     selectedState        |-> NONE,
     allNationwideEntries |-> <<>>,
     zipMarkers           |-> <<>>,
     zctaGeoJson          |-> NONE,
     error                |-> NONE,
     zctaError            |-> NONE,
     highlightedZip       |-> NONE,
     focusZip             |-> NoRecord,
     selectedZipInfo      |-> NoRecord,
     showUnaffordable     |-> TRUE,
     debugMode            |-> FALSE]

(* { ...state, ...patch }                                                  *)
spread(state, patch) ==
    [f \in DOMAIN state |-> IF f \in DOMAIN patch THEN patch[f] ELSE state[f]]

(* tier === 'affordable' ? 'affordable' : tier === 'stretch' ? 'stretch'   *)
(* : 'unaffordable'                                                        *)
markerTier(tier) ==
    IF tier = "affordable" THEN "affordable"
    ELSE IF tier = "stretch" THEN "stretch"
    ELSE "unaffordable"

(* The markers STATE_CLICK and handleLoadAllStates build: one per entry.   *)
allTierMarkers(entries, affordability) ==
    [i \in DOMAIN entries |->
        [zip  |-> entries[i].zip,
         tier |-> markerTier(getAffordabilityTier(entries[i].medianHomeValue,
                                                  affordability))]]

(* state.housingStats?.entries.find(e => e.zip === zip) ?? null            *)
findEntry(housingStats, zip) ==
    IF housingStats = NoRecord THEN NoRecord
    ELSE LET entries == housingStats.entries
             hits    == {i \in DOMAIN entries : entries[i].zip = zip}
         IN  IF hits = {} THEN NoRecord
             ELSE entries[CHOOSE i \in hits : \A j \in hits : i <= j]

(* stateEntriesOf without the filter.                                      *)
stateEntriesOf_All(state, stateCode) == state.allNationwideEntries

(* state.allNationwideEntries.filter(e => e.state === action.stateCode)    *)
stateEntriesOf(state, stateCode) ==
    LET inState(e) == e.state = stateCode
    IN  SelectSeq(state.allNationwideEntries, inState)

(* appReducer(state, action); meta is the module variable metaCache that   *)
(* buildStats reads.                                                       *)
appReducer(state, action, meta) ==
    CASE action.type = "PATCH" -> spread(state, action.patch)
      [] action.type = "START_ADDRESS_SEARCH" ->
            [state EXCEPT !.searchMode = "address",
                          !.loading = TRUE,
                          !.error = NONE,
                          !.stateData = <<>>,
                          !.selectedState = NONE,
                          !.allNationwideEntries = <<>>,
                          !.zipMarkers = <<>>,
                          !.highlightedZip = NONE,
                          !.focusZip = NoRecord]
      [] action.type = "START_INCOME_SEARCH" ->
            [state EXCEPT !.searchMode = "income",
                          !.loading = TRUE,
                          !.error = NONE,
                          !.location = NONE,
                          !.isochrone = NoRecord,
                          !.selectedState = NONE,
                          !.zipMarkers = <<>>,
                          !.highlightedZip = NONE,
                          !.focusZip = NoRecord]
      [] action.type = "INCOME_SEARCH_DONE" ->
            [state EXCEPT !.loading = FALSE,
                          !.stateData = action.stateData,
                          !.allNationwideEntries = action.allEntries,
                          !.housingStats = action.stats,
                          !.stateGeoJson = IF action.stateGeoJson # NONE
                                           THEN action.stateGeoJson
                                           ELSE state.stateGeoJson]
      [] action.type = "STATE_CLICK" ->
            LET stateEntries == stateEntriesOf(state, action.stateCode)
            IN  [state EXCEPT !.selectedState = action.stateCode,
                              !.zctaError = NONE,
                              !.zctaLoading = TRUE,
                              !.zipMarkers = allTierMarkers(stateEntries,
                                                            action.affordability),
                              !.housingStats = buildStats(stateEntries, meta)]
      [] action.type = "SELECT_ZIP" ->
            [state EXCEPT !.focusZip = [zip |-> action.zip],
                          !.highlightedZip = action.zip,
                          !.selectedZipInfo = findEntry(state.housingStats, action.zip)]
      [] action.type = "CLICK_ZIP_MARKER" ->
            [state EXCEPT !.highlightedZip = action.zip,
                          !.selectedZipInfo = findEntry(state.housingStats, action.zip)]
      [] action.type = "BACK_TO_STATES" ->
            [state EXCEPT !.selectedState = NONE,
                          !.zipMarkers = <<>>,
                          !.zctaGeoJson = NONE,
                          !.zctaError = NONE,
                          !.housingStats = buildStats(state.allNationwideEntries, meta)]
      [] action.type = "CLEAR_ALL" ->
            [initialAppState EXCEPT !.stateGeoJson = state.stateGeoJson,
                                    !.mode = state.mode,
                                    !.minutes = state.minutes,
                                    !.showUnaffordable = state.showUnaffordable]
      [] action.type = "CLEAR_DEBUG" ->
            [state EXCEPT !.zctaGeoJson = NONE,
                          !.debugMode = FALSE,
                          !.zipMarkers = IF state.searchMode = "income"
                                            /\ state.selectedState = NONE
                                         THEN <<>> ELSE state.zipMarkers]
      [] OTHER -> state

(***************************************************************************)
(* components/App.tsx: the values derived from the state on each render.   *)
(***************************************************************************)

(* The initial value of the affordability useState.                        *)
initialAffordability ==
    [annualIncome      |-> Dollars(47000),
     downPaymentPct    |-> 20,
     interestRate      |-> 650,
     loanTermYears     |-> 30,
     propertyTaxRate   |-> 110,
     annualInsurance   |-> Dollars(1500),
     monthlyDebts      |-> 0,
     hoaMonthly        |-> 0,
     frontDtiPct       |-> 28,
     backDtiPct        |-> 36,
     monthlySpending   |-> 0,
     includeSpending   |-> FALSE,
     manualMaxPrice    |-> NULL,
     useManualMaxPrice |-> FALSE]

(* A number in a condition: null, undefined and 0 are falsy.               *)
truthy(n) == n # NULL /\ n # 0

hasIncome(affordability) ==
    affordability.annualIncome # NULL /\ affordability.annualIncome > 0

(* The body of the effect that re-applies the affordability tiers: the     *)
(* state after its dispatch, the state itself when it returns early.       *)
reapplyTiers(state, affordability) ==
    IF \/ state.searchMode # "address"
       \/ state.isochrone = NoRecord
       \/ state.housingStats = NoRecord
       \/ Len(state.housingStats.entries) = 0
    THEN state
    ELSE IF ~truthy(affordability.annualIncome) \/ affordability.annualIncome <= 0
    THEN [state EXCEPT !.zipMarkers = <<>>]
    ELSE [state EXCEPT !.zipMarkers =
             knownTierMarkers(state.housingStats.entries, affordability)]

(* The dependency list of that effect, housingStats apart: housingStats is *)
(* compared by identity, and every buildStats returns a new object.        *)
effectDeps(state, affordability) ==
    <<affordability.annualIncome, affordability.downPaymentPct,
      affordability.interestRate, affordability.loanTermYears,
      affordability.propertyTaxRate, affordability.annualInsurance,
      affordability.monthlyDebts, affordability.hoaMonthly,
      affordability.frontDtiPct, affordability.backDtiPct,
      affordability.includeSpending, affordability.monthlySpending,
      state.searchMode>>

(* The state once the render that follows a handler has run its effects:   *)
(* prev and prevAffordability are the values of the render before the      *)
(* handler, next and nextAffordability those it left, and statsAssigned     *)
(* tells whether it dispatched a housingStats.                             *)
rendered(prev, prevAffordability, next, nextAffordability, statsAssigned) ==
    IF \/ effectDeps(prev, prevAffordability) # effectDeps(next, nextAffordability)
       \/ /\ statsAssigned
          /\ ~(prev.housingStats = NoRecord /\ next.housingStats = NoRecord)
    THEN reapplyTiers(next, nextAffordability)
    ELSE next

selectedStateInfo(state) ==
    IF state.selectedState = NONE THEN NoRecord
    ELSE LET hits == {i \in DOMAIN state.stateData :
                         state.stateData[i].state = state.selectedState}
         IN  IF hits = {} THEN NoRecord
             ELSE state.stateData[CHOOSE i \in hits : \A j \in hits : i <= j]

filteredEntries(state, affordability) ==
    IF state.housingStats = NoRecord THEN <<>>
    ELSE IF ~state.showUnaffordable
    THEN LET shown(e) ==
                 getAffordabilityTier(e.medianHomeValue, affordability)
                    \in {"affordable", "stretch"}
         IN  SelectSeq(state.housingStats.entries, shown)
    ELSE state.housingStats.entries

(* filteredZipMarkers without the filter.                                  *)
filteredZipMarkers_KeepsAll(state) == state.zipMarkers

filteredZipMarkers(state) ==
    IF ~state.showUnaffordable
    THEN LET shown(m) == m.tier # "unaffordable"
         IN  SelectSeq(state.zipMarkers, shown)
    ELSE state.zipMarkers

(* Map.tsx: the choropleth, whose states can be clicked, is shown; App      *)
(* passes stateData to the map in income mode only.                        *)
showChoropleth(state) ==
    /\ state.searchMode = "income"
    /\ state.stateGeoJson # NONE
    /\ Len(state.stateData) > 0
    /\ state.isochrone = NoRecord
    /\ state.selectedState = NONE
    /\ ~state.debugMode

(***************************************************************************)
(* State.                                                                  *)
(*   inputs, homePrice   arguments of the mortgage engine under check     *)
(*   principal           argument of calculateMonthlyPayment              *)
(*   pc                  position of the call under check                  *)
(*   tier, payment       results of getAffordabilityTier and               *)
(*                       calculateMonthlyPayment                           *)
(*   low, high, iter     locals of calculateMaxHomePrice's loop            *)
(*   maxPrice            result of calculateMaxHomePrice                   *)
(*   effectiveMaxPrice   result of getEffectiveMaxPrice                    *)
(*   breakdown           result of calculateFullMonthlyPayment             *)
(*   entries             argument of buildStats                            *)
(*   values              the array buildStats hands to median, as the call *)
(*                       leaves it                                         *)
(*   medianResult        result of median                                  *)
(*   stats, statsAgain   results of a first and a second call of           *)
(*                       buildStats, and of getHousingForIsochrone         *)
(*   polygon             the isochrone handed to getHousingForIsochrone    *)
(*   nationwide          result of getAffordableNationwide                 *)
(*   isochroneResult     result of getAffordableForIsochrone               *)
(*   state               the AppState held by useReducer                   *)
(*   affordability       the AffordabilityInputs held by useState          *)
(*   locationRef         locationRef.current                               *)
(*   tasks               the asynchronous handlers waiting at an await     *)
(*   housingDataCache, metaCache, centroidCache, zctaCache                 *)
(*                       the module variables of housingData.ts            *)
(***************************************************************************)
VARIABLES inputs, homePrice, principal, pc, tier, payment, low, high, iter, maxPrice,
          effectiveMaxPrice, breakdown

VARIABLES state, affordability, locationRef, tasks,
          housingDataCache, metaCache, centroidCache, zctaCache

VARIABLES entries, values, medianResult, stats, statsAgain, polygon, nationwide,
          isochroneResult

mvars == <<inputs, homePrice, principal, pc, tier, payment, low, high, iter, maxPrice,
           effectiveMaxPrice, breakdown>>

cacheVars == <<housingDataCache, metaCache, centroidCache, zctaCache>>

avars == <<state, affordability, locationRef, tasks, cacheVars>>

dvars == <<entries, values, medianResult, stats, statsAgain, polygon, nationwide,
          isochroneResult>>

vars == <<mvars, avars, dvars>>

(* makeInputs of the test suite / the defaults of App.tsx.                 *)
defaultInputs ==
    [annualIncome      |-> Dollars(60000),
     downPaymentPct    |-> 20,
     interestRate      |-> 650,
     loanTermYears     |-> 30,
     propertyTaxRate   |-> 110,
     annualInsurance   |-> Dollars(1500),
     monthlyDebts      |-> 0,
     hoaMonthly        |-> 0,
     frontDtiPct       |-> 28,
     backDtiPct        |-> 36,
     monthlySpending   |-> 0,
     includeSpending   |-> FALSE,
     manualMaxPrice    |-> NULL,
     useManualMaxPrice |-> FALSE]

(***************************************************************************)
(* Bounds of the checked input space.                                      *)
(***************************************************************************)
MaxPriceSteps == 7
MaxSpendingSteps == 3

Incomes == {NULL, Dollars(-1), 0, Dollars(24000), Dollars(60000)}

(* 1275 and 1675 dollars of debts put the DTI of a 60000-dollar income    *)
(* at price 0 exactly on the 28 % and 36 % thresholds.                     *)
Debts == {0, Dollars(400), Dollars(1275), Dollars(1675)}

HomePrices == {NULL} \cup {Dollars(40000 * k) : k \in 0..MaxPriceSteps}

Spendings == {Dollars(1500 * k) : k \in 0..MaxSpendingSteps}

TierInputs ==
    {[defaultInputs EXCEPT !.annualIncome = inc, !.downPaymentPct = dp,
                           !.monthlyDebts = d, !.monthlySpending = s,
                           !.includeSpending = f] :
        inc \in Incomes, dp \in {5, 20}, d \in Debts, s \in Spendings,
        f \in BOOLEAN}

mortgageIdle ==
    /\ principal = 0
    /\ pc = "idle"
    /\ tier = NONE
    /\ payment = NULL
    /\ low = 0
    /\ high = 0
    /\ iter = 0
    /\ maxPrice = NULL
    /\ effectiveMaxPrice = NULL
    /\ breakdown = NoRecord

dataIdle ==
    /\ entries = <<>>
    /\ values = <<>>
    /\ medianResult = NULL
    /\ stats = NoRecord
    /\ statsAgain = NoRecord
    /\ polygon = NoRecord
    /\ nationwide = NoRecord
    /\ isochroneResult = NoRecord

appIdle ==
    /\ state = initialAppState
    /\ affordability = initialAffordability
    /\ locationRef = NONE
    /\ tasks = {}
    /\ housingDataCache = <<>>
    /\ metaCache = NONE
    /\ centroidCache = <<>>
    /\ zctaCache = {}

(***************************************************************************)
(* TierSpec: getAffordabilityTier applied to every price and inputs       *)
(* record of the bounded input space.                                      *)
(***************************************************************************)
TierInit ==
    /\ inputs \in TierInputs
    /\ homePrice \in HomePrices
    /\ mortgageIdle
    /\ appIdle
    /\ dataIdle

Classify ==
    /\ pc = "idle"
    /\ tier' = getAffordabilityTier(homePrice, inputs)
    /\ pc' = "classified"
    /\ UNCHANGED <<inputs, homePrice, principal, payment, low, high, iter, maxPrice>>
    /\ UNCHANGED <<effectiveMaxPrice, breakdown>>
    /\ UNCHANGED <<avars, dvars>>

TierNext == Classify

TierSpec == TierInit /\ [][TierNext]_vars

(***************************************************************************)
(* SolverSpec: calculateMonthlyPayment and calculateMaxHomePrice, the      *)
(* latter one loop iteration at a time.                                    *)
(***************************************************************************)

(* <<downPaymentPct, interestRate, propertyTaxRate>>.  The last profile    *)
(* is cheap enough that the payment at 10 * annualIncome stays under the  *)
(* front-end budget.                                                       *)
LoanProfiles == {<<5, 650, 110>>, <<20, 650, 110>>, <<20, 0, 110>>, <<50, 0, 50>>}

(* 1400 dollars is exactly 28 % of a 60000-dollar income's month.          *)
SolverDebts == {0, Dollars(400), Dollars(1275), Dollars(1400), Dollars(1675)}

(* An income need not be in whole dollars: 60000.06 dollars put the top of  *)
(* the bracket at 600000.60.                                               *)
SolverIncomes == Incomes \cup {Dollars(60000) + 6}

SolverInputs ==
    {[defaultInputs EXCEPT !.annualIncome = inc, !.downPaymentPct = lp[1],
                           !.interestRate = lp[2], !.propertyTaxRate = lp[3],
                           !.monthlyDebts = d, !.hoaMonthly = h] :
        inc \in SolverIncomes, lp \in LoanProfiles, d \in SolverDebts,
        h \in {0, Dollars(2000)}}

Principals == {Dollars(-100000), 0, Dollars(96000)}

SolverInit ==
    /\ inputs \in SolverInputs
    /\ homePrice = NULL
    /\ mortgageIdle
    /\ appIdle
    /\ dataIdle

(* A call of calculateMonthlyPayment with the loan terms of inputs.        *)
Amortize ==
    /\ pc \in {"idle", "solved"}
    /\ \E p \in Principals :
          /\ principal' = p
          /\ payment' = calculateMonthlyPayment(p, inputs.interestRate,
                                                inputs.loanTermYears)
    /\ UNCHANGED <<inputs, homePrice, pc, tier, low, high, iter, maxPrice>>
    /\ UNCHANGED <<effectiveMaxPrice, breakdown>>
    /\ UNCHANGED <<avars, dvars>>

(* calculateMaxHomePrice up to the loop: the two early returns, or the    *)
(* initial bracket.                                                        *)
SolveStart ==
    /\ pc = "idle"
    /\ IF noIncome(inputs) \/ noHousingBudget(inputs)
       THEN /\ maxPrice' = 0
            /\ pc' = "solved"
            /\ UNCHANGED <<low, high, iter>>
       ELSE /\ low' = 0
            /\ high' = inputs.annualIncome * 10
            /\ iter' = 0
            /\ pc' = "solving"
            /\ UNCHANGED maxPrice
    /\ UNCHANGED <<inputs, homePrice, principal, tier, payment>>
    /\ UNCHANGED <<effectiveMaxPrice, breakdown>>
    /\ UNCHANGED <<avars, dvars>>

SolveStep ==
    /\ pc = "solving"
    /\ iter < SOLVER_ITERATIONS
    /\ LET b == solverStep([low |-> low, high |-> high], inputs)
       IN  /\ low' = b.low
           /\ high' = b.high
    /\ iter' = iter + 1
    /\ UNCHANGED <<inputs, homePrice, principal, pc, tier, payment, maxPrice>>
    /\ UNCHANGED <<effectiveMaxPrice, breakdown>>
    /\ UNCHANGED <<avars, dvars>>

SolveReturn ==
    /\ pc = "solving"
    /\ iter >= SOLVER_ITERATIONS
    /\ maxPrice' = roundedMidpoint([low |-> low, high |-> high])
    /\ pc' = "solved"
    /\ UNCHANGED <<inputs, homePrice, principal, tier, payment, low, high, iter>>
    /\ UNCHANGED <<effectiveMaxPrice, breakdown>>
    /\ UNCHANGED <<avars, dvars>>

SolverNext == Amortize \/ SolveStart \/ SolveStep \/ SolveReturn

SolverSpec == SolverInit /\ [][SolverNext]_vars

(* The stepwise loop and the operator compute the same price.              *)
SolverAgrees == pc = "solved" => maxPrice = calculateMaxHomePrice(inputs)

(***************************************************************************)
(* EffectiveSpec: getEffectiveMaxPrice, after the loop of                  *)
(* calculateMaxHomePrice has run on the same inputs.                       *)
(***************************************************************************)
ManualPrices == {NULL, 0, Dollars(250000)}

EffectiveInputs ==
    {[defaultInputs EXCEPT !.annualIncome = inc, !.monthlyDebts = d,
                           !.manualMaxPrice = m, !.useManualMaxPrice = u] :
        inc \in Incomes, d \in {0, Dollars(1400)}, m \in ManualPrices,
        u \in BOOLEAN}

EffectiveInit ==
    /\ inputs \in EffectiveInputs
    /\ homePrice = NULL
    /\ mortgageIdle
    /\ appIdle
    /\ dataIdle

(* A call of getEffectiveMaxPrice.                                         *)
EffectiveMax ==
    /\ pc = "solved"
    /\ effectiveMaxPrice' = getEffectiveMaxPrice(inputs)
    /\ pc' = "effective"
    /\ UNCHANGED <<inputs, homePrice, principal, tier, payment, low, high, iter,
                   maxPrice, breakdown>>
    /\ UNCHANGED <<avars, dvars>>

EffectiveNext == SolveStart \/ SolveStep \/ SolveReturn \/ EffectiveMax

EffectiveSpec == EffectiveInit /\ [][EffectiveNext]_vars

(***************************************************************************)
(* PaymentSpec: calculateFullMonthlyPayment applied to every price and     *)
(* loan of the bounded input space.                                        *)
(***************************************************************************)
DownPayments == {0, 5, 19, 20, 21, 50}

PaymentInputs ==
    {[defaultInputs EXCEPT !.downPaymentPct = dp, !.interestRate = r,
                           !.hoaMonthly = h] :
        dp \in DownPayments, r \in {0, 650}, h \in {0, Dollars(200)}}

PaymentInit ==
    /\ inputs \in PaymentInputs
    /\ homePrice \in HomePrices \ {NULL}
    /\ mortgageIdle
    /\ appIdle
    /\ dataIdle

(* A call of calculateFullMonthlyPayment.                                  *)
FullPayment ==
    /\ pc = "idle"
    /\ breakdown' = calculateFullMonthlyPayment(homePrice, inputs)
    /\ pc' = "paid"
    /\ UNCHANGED <<inputs, homePrice, principal, tier, payment, low, high, iter,
                   maxPrice, effectiveMaxPrice>>
    /\ UNCHANGED <<avars, dvars>>

PaymentNext == FullPayment

PaymentSpec == PaymentInit /\ [][PaymentNext]_vars

(***************************************************************************)
(* AppSpec: the App component.  state is the reducer's state, affordability *)
(* the useState beside it, locationRef the ref, tasks the asynchronous     *)
(* handlers that are waiting on a request, each with the values its        *)
(* closure captured, and the caches the module variables of housingData.ts. *)
(* A handler runs up to its next await in one step, the render and the      *)
(* effect that follow its dispatches included.                             *)
(***************************************************************************)

(* The values the explored behaviours enter in the form and the search    *)
(* bar.                                                                    *)
FormIncomes == {NULL, Dollars(24000), Dollars(47000)}

AffordabilityChoices ==
    {[initialAffordability EXCEPT !.annualIncome = inc] : inc \in FormIncomes}

Addresses == {"Columbus"}

(* The outcomes of the fetches of the two data files and of the state map  *)
(* (TRUE: fetched), and of a ZCTA boundary file (TRUE: found).             *)
FetchOutcomes == BOOLEAN

ZctaOutcomes == BOOLEAN

(* The states clicked on the map; no ZIP of TX is within reach of the      *)
(* incomes explored.                                                       *)
StateCodes == {"OH", "TX"}

(* The ZIPs of a ZCTA boundary document; 43003 is in no other table.       *)
zctaZips(zctaGeoJson) ==
    CASE zctaGeoJson = "OH"  -> {"43001", "43002", "43003"}
      [] zctaGeoJson = "TX"  -> {"75001", "75002"}
      [] zctaGeoJson = "all" -> {"43001", "43002", "43003", "75001", "75002"}
      [] OTHER               -> {}

AppInit ==
    /\ inputs = defaultInputs
    /\ homePrice = NULL
    /\ mortgageIdle
    /\ appIdle
    /\ dataIdle

(* dispatch(action); buildStats reads the module variable metaCache.       *)
dispatch(s, action) == appReducer(s, action, metaCache)

(* dispatch({ type: 'PATCH', patch: p })                                   *)
patch(s, p) == spread(s, p)

(* A waiting handler: kind and stage say which handler and which await,   *)
(* the other fields are the values its closure captured, null when the     *)
(* handler has none.                                                       *)
newTask(kind, stage) ==
    [kind                 |-> kind,
     stage                |-> stage,
     address              |-> NONE,
     mode                 |-> NONE,
     minutes              |-> NULL,
     affordability        |-> NoRecord,
     geojson              |-> NoRecord,
     stateGeoJson         |-> NONE,
     stateCode            |-> NONE,
     searchMode           |-> NONE,
     allNationwideEntries |-> <<>>]

waiting(t, kind, stage) == t \in tasks /\ t.kind = kind /\ t.stage = stage

(* No handler of this kind is waiting: the explored behaviours do not      *)
(* start a handler again while its previous call is still waiting.         *)
noneWaiting(kind) == \A t \in tasks : t.kind # kind

(* AffordabilityForm onChange = setAffordability.                          *)
SetAffordability ==
    \E a \in AffordabilityChoices :
       /\ a # affordability
       /\ affordability' = a
       /\ state' = rendered(state, affordability, state, a, FALSE)
       /\ UNCHANGED <<locationRef, tasks, cacheVars, mvars, dvars>>

(* handleSearch up to the await of geocodeAddress; the search bar is      *)
(* disabled while loading.                                                 *)
HandleSearch ==
    \E address \in Addresses :
       /\ ~state.loading
       /\ \E s1 \in {dispatch(state, [type |-> "START_ADDRESS_SEARCH"])} :
             state' = rendered(state, affordability, s1, affordability, FALSE)
       /\ tasks' = tasks \cup
             {[newTask("search", "geocode") EXCEPT
                  !.address = address, !.mode = state.mode,
                  !.minutes = state.minutes, !.affordability = affordability]}
       /\ UNCHANGED <<affordability, locationRef, cacheVars, mvars, dvars>>

(* geocodeAddress resolves: handleSearch stores the location and           *)
(* updateIsochrone runs up to the await of fetchIsochroneWithCache.        *)
GeocodeResolve ==
    \E t \in tasks :
       /\ waiting(t, "search", "geocode")
       /\ \E s1 \in {patch(state, [location |-> t.address])} :
          \E s2 \in {patch(s1, [loading |-> TRUE, error |-> NONE])} :
             state' = rendered(state, affordability, s2, affordability, FALSE)
       /\ locationRef' = t.address
       /\ tasks' = (tasks \ {t}) \cup {[t EXCEPT !.stage = "isochrone"]}
       /\ UNCHANGED <<affordability, cacheVars, mvars, dvars>>

(* geocodeAddress rejects: the catch of handleSearch.                      *)
GeocodeReject ==
    \E t \in tasks :
       /\ waiting(t, "search", "geocode")
       /\ \E s1 \in {patch(state, [error |-> "Search failed", loading |-> FALSE])} :
             state' = rendered(state, affordability, s1, affordability, FALSE)
       /\ tasks' = tasks \ {t}
       /\ UNCHANGED <<affordability, locationRef, cacheVars, mvars, dvars>>

(* fetchIsochroneWithCache resolves: updateIsochrone up to the await of    *)
(* the housing join.                                                       *)
IsochroneResolve ==
    \E t \in tasks :
       /\ waiting(t, "search", "isochrone")
       /\ \E geojson \in {[location |-> t.address, mode |-> t.mode,
                           minutes |-> t.minutes]} :
             /\ \E s1 \in {patch(state, [isochrone |-> geojson])} :
                \E s2 \in {patch(s1, [housingLoading |-> TRUE])} :
                   state' = rendered(state, affordability, s2, affordability, FALSE)
             /\ tasks' = (tasks \ {t}) \cup
                   {[t EXCEPT !.stage = "housing", !.geojson = geojson]}
       /\ UNCHANGED <<affordability, locationRef, cacheVars, mvars, dvars>>

(* fetchIsochroneWithCache rejects: the outer catch and finally.           *)
IsochroneReject ==
    \E t \in tasks :
       /\ waiting(t, "search", "isochrone")
       /\ \E s1 \in {patch(state, [error |-> "Isochrone request failed",
                                   isochrone |-> NoRecord,
                                   housingStats |-> NoRecord])} :
          \E s2 \in {patch(s1, [loading |-> FALSE])} :
             state' = rendered(state, affordability, s2, affordability, TRUE)
       /\ tasks' = tasks \ {t}
       /\ UNCHANGED <<affordability, locationRef, cacheVars, mvars, dvars>>

(* The state after the dispatch of updateIsochrone's housing result: the   *)
(* stats with the markers of the captured affordability when it has an     *)
(* income, the stats alone when it has none.                               *)
housingDispatched(s, t, housingData, centroids, meta) ==
    IF truthy(t.affordability.annualIncome)
    THEN {patch(s, [housingStats |-> r.stats, zipMarkers |-> r.zipMarkers]) :
             r \in {getAffordableForIsochrone(t.geojson, t.affordability,
                                              housingData, centroids, meta)}}
    ELSE {patch(s, [housingStats |-> getHousingForIsochrone(
                                         t.geojson, housingData, centroids, meta),
                    zipMarkers |-> <<>>])}

(* The housing join resolves: the tables are loaded if they were not, the  *)
(* stats and the markers are dispatched, and both finally blocks run.      *)
HousingResolve ==
    \E t \in tasks, dataFetched, centroidsFetched \in FetchOutcomes :
       /\ waiting(t, "search", "housing")
       /\ housingDataCache' = loadHousingData(housingDataCache, dataFetched)
       /\ metaCache' = loadedMeta(housingDataCache, metaCache, dataFetched)
       /\ centroidCache' = loadCentroids(centroidCache, centroidsFetched)
       /\ \E s1 \in housingDispatched(state, t, housingDataCache'[1],
                                      centroidCache'[1], metaCache') :
          \E s2 \in {patch(s1, [housingLoading |-> FALSE])} :
          \E s3 \in {patch(s2, [loading |-> FALSE])} :
             state' = rendered(state, affordability, s3, affordability, TRUE)
       /\ tasks' = tasks \ {t}
       /\ UNCHANGED <<affordability, locationRef, zctaCache, mvars, dvars>>

(* The housing join throws on the polygon (it reads it only when both      *)
(* tables have rows): the inner catch and both finally blocks.             *)
HousingReject ==
    \E t \in tasks, dataFetched, centroidsFetched \in FetchOutcomes :
       /\ waiting(t, "search", "housing")
       /\ housingDataCache' = loadHousingData(housingDataCache, dataFetched)
       /\ metaCache' = loadedMeta(housingDataCache, metaCache, dataFetched)
       /\ centroidCache' = loadCentroids(centroidCache, centroidsFetched)
       /\ Len(housingDataCache'[1]) > 0
       /\ Len(centroidCache'[1]) > 0
       /\ \E s1 \in {patch(state, [housingStats |-> NoRecord, zipMarkers |-> <<>>])} :
          \E s2 \in {patch(s1, [housingLoading |-> FALSE])} :
          \E s3 \in {patch(s2, [loading |-> FALSE])} :
             state' = rendered(state, affordability, s3, affordability, TRUE)
       /\ tasks' = tasks \ {t}
       /\ UNCHANGED <<affordability, locationRef, zctaCache, mvars, dvars>>

(* handleIncomeSearch up to its first await; the search bar offers it when *)
(* an income is entered and it is not loading.                             *)
HandleIncomeSearch ==
    /\ ~state.loading
    /\ hasIncome(affordability)
    /\ \E s1 \in {dispatch(state, [type |-> "START_INCOME_SEARCH"])} :
          state' = rendered(state, affordability, s1, affordability, FALSE)
    /\ locationRef' = NONE
    /\ tasks' = tasks \cup
          {[newTask("income", "nationwide") EXCEPT
               !.affordability = affordability,
               !.stateGeoJson = state.stateGeoJson]}
    /\ UNCHANGED <<affordability, cacheVars, mvars, dvars>>

(* The state map (when none was held) and getAffordableNationwide resolve. *)
IncomeSearchResolve ==
    \E t \in tasks, mapFetched, dataFetched, centroidsFetched \in FetchOutcomes :
       /\ waiting(t, "income", "nationwide")
       /\ housingDataCache' = loadHousingData(housingDataCache, dataFetched)
       /\ metaCache' = loadedMeta(housingDataCache, metaCache, dataFetched)
       /\ centroidCache' = loadCentroids(centroidCache, centroidsFetched)
       /\ \E result \in {getAffordableNationwide(t.affordability,
                             housingDataCache'[1], centroidCache'[1], metaCache')} :
          \E s1 \in {appReducer(state,
                         [type         |-> "INCOME_SEARCH_DONE",
                          stateData    |-> result.states,
                          allEntries   |-> result.allEntries,
                          stats        |-> result.stats,
                          stateGeoJson |-> IF t.stateGeoJson # NONE
                                           THEN t.stateGeoJson
                                           ELSE IF mapFetched THEN "us-states"
                                           ELSE NONE],
                         metaCache')} :
             state' = rendered(state, affordability, s1, affordability, TRUE)
       /\ tasks' = tasks \ {t}
       /\ UNCHANGED <<affordability, locationRef, zctaCache, mvars, dvars>>

(* The fetch of the state map throws: the catch of handleIncomeSearch.     *)
IncomeSearchReject ==
    \E t \in tasks :
       /\ waiting(t, "income", "nationwide")
       /\ t.stateGeoJson = NONE
       /\ \E s1 \in {patch(state, [error |-> "Income search failed",
                                   housingStats |-> NoRecord,
                                   loading |-> FALSE])} :
             state' = rendered(state, affordability, s1, affordability, TRUE)
       /\ tasks' = tasks \ {t}
       /\ UNCHANGED <<affordability, locationRef, cacheVars, mvars, dvars>>

(* handleStateClick up to the await of loadZctaBoundaries; a state can be  *)
(* clicked while the choropleth is shown.                                  *)
StateClick(stateCode) ==
       /\ showChoropleth(state)
       /\ noneWaiting("zcta")
       /\ \E s1 \in {dispatch(state, [type |-> "STATE_CLICK",
                                      stateCode |-> stateCode,
                                      affordability |-> affordability])} :
             state' = rendered(state, affordability, s1, affordability, TRUE)
       /\ tasks' = tasks \cup
             {[newTask("zcta", "boundaries") EXCEPT !.stateCode = stateCode]}
       /\ UNCHANGED <<affordability, locationRef, cacheVars, mvars, dvars>>

HandleStateClick == \E stateCode \in StateCodes : StateClick(stateCode)

(* loadZctaBoundaries resolves with the boundaries, cached from then on,   *)
(* or with null; it never rejects.                                         *)
ZctaResolve ==
    \E t \in tasks, available \in ZctaOutcomes :
       /\ waiting(t, "zcta", "boundaries")
       /\ \E found \in {t.stateCode \in zctaCache \/ available} :
             /\ \E s1 \in {patch(state,
                              [zctaGeoJson |-> IF found THEN t.stateCode ELSE NONE,
                               zctaLoading |-> FALSE,
                               zctaError   |-> IF found THEN NONE
                                               ELSE "ZIP boundary data not available"])} :
                   state' = rendered(state, affordability, s1, affordability, FALSE)
             /\ zctaCache' = IF found THEN zctaCache \cup {t.stateCode}
                             ELSE zctaCache
       /\ tasks' = tasks \ {t}
       /\ UNCHANGED <<affordability, locationRef, housingDataCache, metaCache,
                      centroidCache, mvars, dvars>>

(* handleBackToStates; its button is in the header of the selected state.  *)
HandleBackToStates ==
    /\ state.searchMode = "income"
    /\ selectedStateInfo(state) # NoRecord
    /\ \E s1 \in {dispatch(state, [type |-> "BACK_TO_STATES"])} :
          state' = rendered(state, affordability, s1, affordability, TRUE)
    /\ UNCHANGED <<affordability, locationRef, tasks, cacheVars, mvars, dvars>>

(* handleClear; the clear button is hidden while loading.                  *)
HandleClear ==
    /\ ~state.loading
    /\ \E s1 \in {dispatch(state, [type |-> "CLEAR_ALL"])} :
          state' = rendered(state, affordability, s1, affordability, TRUE)
    /\ locationRef' = NONE
    /\ UNCHANGED <<affordability, tasks, cacheVars, mvars, dvars>>

(* handleZipSelect: a click on a row of the housing table or of its modal. *)
HandleZipSelect ==
    \E e \in SeqRange(filteredEntries(state, affordability)) :
       /\ \E s1 \in {dispatch(state, [type |-> "SELECT_ZIP", zip |-> e.zip])} :
             state' = rendered(state, affordability, s1, affordability, FALSE)
       /\ UNCHANGED <<affordability, locationRef, tasks, cacheVars, mvars, dvars>>

(* handleZipMarkerClick: a click on a marker, or on a ZIP of the boundary  *)
(* layer that replaces the markers when zctaGeoJson is set.                *)
HandleZipMarkerClick ==
    \E shown \in {filteredZipMarkers(state)} :
    \E zip \in {shown[i].zip : i \in DOMAIN shown}
                  \cup (IF Len(shown) > 0 THEN zctaZips(state.zctaGeoJson) ELSE {}) :
       /\ \E s1 \in {dispatch(state, [type |-> "CLICK_ZIP_MARKER", zip |-> zip])} :
             state' = rendered(state, affordability, s1, affordability, FALSE)
       /\ UNCHANGED <<affordability, locationRef, tasks, cacheVars, mvars, dvars>>

(* The show-unaffordable checkbox of the housing section.                  *)
ToggleShowUnaffordable ==
    /\ state.housingStats # NoRecord \/ state.housingLoading
    /\ \/ state.searchMode = "income" /\ state.selectedState # NONE
       \/ state.searchMode = "address" /\ Len(state.zipMarkers) > 0
    /\ \E s1 \in {patch(state, [showUnaffordable |-> ~state.showUnaffordable])} :
          state' = rendered(state, affordability, s1, affordability, FALSE)
    /\ UNCHANGED <<affordability, locationRef, tasks, cacheVars, mvars, dvars>>

(* The close button of the ZIP info box.                                   *)
CloseZipInfo ==
    /\ state.selectedZipInfo # NoRecord
    /\ \E s1 \in {patch(state, [selectedZipInfo |-> NoRecord])} :
          state' = rendered(state, affordability, s1, affordability, FALSE)
    /\ UNCHANGED <<affordability, locationRef, tasks, cacheVars, mvars, dvars>>

(* handleLoadAllStates up to its first await; the debug button of the map  *)
(* calls it while debugMode is off.                                        *)
HandleLoadAllStates ==
    /\ ~state.debugMode
    /\ noneWaiting("loadAll")
    /\ \E s1 \in {patch(state, [zctaLoading |-> TRUE, zctaError |-> NONE])} :
          state' = rendered(state, affordability, s1, affordability, FALSE)
    /\ tasks' = tasks \cup
          {[newTask("loadAll", "boundaries") EXCEPT
               !.searchMode = state.searchMode,
               !.allNationwideEntries = state.allNationwideEntries,
               !.affordability = affordability]}
    /\ UNCHANGED <<affordability, locationRef, cacheVars, mvars, dvars>>

(* The batches of loadZctaBoundaries have resolved, with the boundaries of *)
(* every state or with those cached before only: the rest of               *)
(* handleLoadAllStates.  The combined document is carried as "all".        *)
LoadAllResolve ==
    \E t \in tasks, available \in ZctaOutcomes :
       /\ waiting(t, "loadAll", "boundaries")
       /\ \E s1 \in {patch(state, [zctaGeoJson |-> "all", debugMode |-> TRUE])} :
          \E s2 \in {IF /\ t.searchMode = "income"
                        /\ Len(t.allNationwideEntries) > 0
                        /\ truthy(t.affordability.annualIncome)
                     THEN patch(s1, [zipMarkers |->
                                        allTierMarkers(t.allNationwideEntries,
                                                       t.affordability)])
                     ELSE s1} :
          \E s3 \in {patch(s2, [zctaLoading |-> FALSE])} :
             state' = rendered(state, affordability, s3, affordability, FALSE)
       /\ zctaCache' = IF available THEN StateCodes ELSE zctaCache
       /\ tasks' = tasks \ {t}
       /\ UNCHANGED <<affordability, locationRef, housingDataCache, metaCache,
                      centroidCache, mvars, dvars>>

(* handleClearDebugZips; the debug button calls it while debugMode is on.  *)
HandleClearDebugZips ==
    /\ state.debugMode
    /\ \E s1 \in {dispatch(state, [type |-> "CLEAR_DEBUG"])} :
          state' = rendered(state, affordability, s1, affordability, FALSE)
    /\ UNCHANGED <<affordability, locationRef, tasks, cacheVars, mvars, dvars>>

(* The searches, the state clicks and the edits of the affordability       *)
(* inputs, with the handlers that leave a search or a state.               *)
AppNext ==
    \/ SetAffordability
    \/ HandleSearch
    \/ GeocodeResolve
    \/ GeocodeReject
    \/ IsochroneResolve
    \/ IsochroneReject
    \/ HousingResolve
    \/ HousingReject
    \/ HandleIncomeSearch
    \/ IncomeSearchResolve
    \/ IncomeSearchReject
    \/ HandleStateClick
    \/ ZctaResolve
    \/ HandleBackToStates
    \/ HandleClear

AppSpec == AppInit /\ [][AppNext]_vars

(***************************************************************************)
(* CommuteSpec: an address search with changes of the travel mode and of   *)
(* the travel time.  The timer of handleMinutesChange is carried in tasks  *)
(* as a task of kind "debounce" holding what its callback closes over.     *)
(***************************************************************************)
TravelModes == {"drive", "transit"}

MinuteChoices == {15, 30}

MaxWaiting == 2

(* updateIsochrone(loc, travelMode, travelMinutes) up to the await of      *)
(* fetchIsochroneWithCache, as a task.                                     *)
isochroneRequest(loc, travelMode, travelMinutes, captured) ==
    [newTask("search", "isochrone") EXCEPT
        !.address = loc, !.mode = travelMode, !.minutes = travelMinutes,
        !.affordability = captured]

(* handleModeChange; Controls is disabled while loading and is rendered in *)
(* address mode.                                                          *)
HandleModeChange ==
    \E newMode \in TravelModes \ {state.mode} :
       /\ state.searchMode = "address"
       /\ ~state.loading
       /\ Cardinality(tasks) < MaxWaiting
       /\ \E s1 \in {patch(state, [mode |-> newMode])} :
          \E s2 \in {IF locationRef # NONE
                      THEN patch(s1, [loading |-> TRUE, error |-> NONE])
                      ELSE s1} :
             state' = rendered(state, affordability, s2, affordability, FALSE)
       /\ tasks' = IF locationRef # NONE
                   THEN tasks \cup {isochroneRequest(locationRef, newMode,
                                                     state.minutes, affordability)}
                   ELSE tasks
       /\ UNCHANGED <<affordability, locationRef, cacheVars, mvars, dvars>>

(* handleMinutesChange: the dispatch, clearTimeout and setTimeout; the     *)
(* callback closes over the mode and the updateIsochrone of this render.   *)
HandleMinutesChange ==
    \E newMinutes \in MinuteChoices \ {state.minutes} :
       /\ state.searchMode = "address"
       /\ ~state.loading
       /\ Cardinality(tasks) < MaxWaiting
       /\ \E s1 \in {patch(state, [minutes |-> newMinutes])} :
             state' = rendered(state, affordability, s1, affordability, FALSE)
       /\ tasks' = {t \in tasks : t.kind # "debounce"} \cup
             {[newTask("debounce", "timer") EXCEPT
                  !.mode = state.mode, !.minutes = newMinutes,
                  !.affordability = affordability]}
       /\ UNCHANGED <<affordability, locationRef, cacheVars, mvars, dvars>>

(* The timer fires after 400 ms: its callback reads locationRef.current    *)
(* and calls updateIsochrone with the mode and minutes it closed over.     *)
DebounceFire ==
    \E t \in tasks :
       /\ waiting(t, "debounce", "timer")
       /\ \E s1 \in {IF locationRef # NONE
                      THEN patch(state, [loading |-> TRUE, error |-> NONE])
                      ELSE state} :
             state' = rendered(state, affordability, s1, affordability, FALSE)
       /\ tasks' = IF locationRef # NONE
                   THEN (tasks \ {t}) \cup
                           {isochroneRequest(locationRef, t.mode, t.minutes,
                                             t.affordability)}
                   ELSE tasks \ {t}
       /\ UNCHANGED <<affordability, locationRef, cacheVars, mvars, dvars>>

CommuteNext ==
    \/ HandleSearch
    \/ GeocodeResolve
    \/ GeocodeReject
    \/ IsochroneResolve
    \/ IsochroneReject
    \/ HousingResolve
    \/ HousingReject
    \/ HandleModeChange
    \/ HandleMinutesChange
    \/ DebounceFire

(* The application once both data files have been loaded.                  *)
CommuteInit ==
    /\ inputs = defaultInputs
    /\ homePrice = NULL
    /\ mortgageIdle
    /\ state = initialAppState
    /\ affordability = initialAffordability
    /\ locationRef = NONE
    /\ tasks = {}
    /\ housingDataCache = <<housingDataJson>>
    /\ metaCache = metaJson
    /\ centroidCache = <<zipCentroidsJson>>
    /\ zctaCache = {}
    /\ dataIdle

CommuteSpec == CommuteInit /\ [][CommuteNext]_vars

(***************************************************************************)
(* ReducerSpec: appReducer under its named actions, dispatched in any      *)
(* order with payloads of the bounded input space.                         *)
(***************************************************************************)

(* The results of getAffordableNationwide that INCOME_SEARCH_DONE can      *)
(* carry.                                                                  *)
NationwideResults ==
    {getAffordableNationwide(a, housingDataJson, zipCentroidsJson, metaJson) :
        a \in AffordabilityChoices}

ClickableZips == {"43001", "43002", "75001"}

(* Each action is dispatch(action) alone: the state is the reducer's.      *)
StartAddressSearch ==
    /\ state' = dispatch(state, [type |-> "START_ADDRESS_SEARCH"])
    /\ UNCHANGED <<affordability, locationRef, tasks, cacheVars, mvars, dvars>>

StartIncomeSearch ==
    /\ state' = dispatch(state, [type |-> "START_INCOME_SEARCH"])
    /\ UNCHANGED <<affordability, locationRef, tasks, cacheVars, mvars, dvars>>

IncomeSearchDone ==
    \E result \in NationwideResults, geoJson \in {NONE, "us-states"} :
       /\ state' = dispatch(state, [type         |-> "INCOME_SEARCH_DONE",
                                    stateData    |-> result.states,
                                    allEntries   |-> result.allEntries,
                                    stats        |-> result.stats,
                                    stateGeoJson |-> geoJson])
       /\ UNCHANGED <<affordability, locationRef, tasks, cacheVars, mvars, dvars>>

StateClicked ==
    \E stateCode \in StateCodes, a \in AffordabilityChoices :
       /\ state' = dispatch(state, [type |-> "STATE_CLICK", stateCode |-> stateCode,
                                    affordability |-> a])
       /\ UNCHANGED <<affordability, locationRef, tasks, cacheVars, mvars, dvars>>

SelectZip ==
    \E zip \in ClickableZips :
       /\ state' = dispatch(state, [type |-> "SELECT_ZIP", zip |-> zip])
       /\ UNCHANGED <<affordability, locationRef, tasks, cacheVars, mvars, dvars>>

ClickZipMarker ==
    \E zip \in ClickableZips :
       /\ state' = dispatch(state, [type |-> "CLICK_ZIP_MARKER", zip |-> zip])
       /\ UNCHANGED <<affordability, locationRef, tasks, cacheVars, mvars, dvars>>

BackToStates ==
    /\ state' = dispatch(state, [type |-> "BACK_TO_STATES"])
    /\ UNCHANGED <<affordability, locationRef, tasks, cacheVars, mvars, dvars>>

ClearAll ==
    /\ state' = dispatch(state, [type |-> "CLEAR_ALL"])
    /\ UNCHANGED <<affordability, locationRef, tasks, cacheVars, mvars, dvars>>

ClearDebug ==
    /\ state' = dispatch(state, [type |-> "CLEAR_DEBUG"])
    /\ UNCHANGED <<affordability, locationRef, tasks, cacheVars, mvars, dvars>>

ReducerNext ==
    \/ StartAddressSearch
    \/ StartIncomeSearch
    \/ IncomeSearchDone
    \/ StateClicked
    \/ SelectZip
    \/ ClickZipMarker
    \/ BackToStates
    \/ ClearAll
    \/ ClearDebug

ReducerSpec == CommuteInit /\ [][ReducerNext]_vars

(* The application with the show-unaffordable checkbox.                    *)
ViewNext == AppNext \/ ToggleShowUnaffordable

ViewSpec == AppInit /\ [][ViewNext]_vars

(***************************************************************************)
(* StatsSpec: median and buildStats applied to every entry list of the     *)
(* bounded input space, buildStats twice, and loadHousingData resolving    *)
(* before, between or after the calls.                                     *)
(***************************************************************************)
MaxEntries == 4

(* <<medianHomeValue, medianRent>> of the entries of the checked lists.    *)
EntryKinds ==
    {<<Dollars(100000), Dollars(900)>>, <<Dollars(200000), NULL>>,
     <<Dollars(400000), Dollars(1500)>>, <<NULL, Dollars(1100)>>,
     <<NULL, NULL>>}

ListZips == <<"43001", "43002", "43003", "43004", "43005", "43006">>

EntryLists ==
    {[i \in DOMAIN kinds |-> [zip |-> ListZips[i], state |-> "OH",
                              medianHomeValue |-> kinds[i][1],
                              medianRent |-> kinds[i][2]]] :
        kinds \in UNION {[1..n -> EntryKinds] : n \in 0..MaxEntries}}

StatsInit ==
    /\ inputs = defaultInputs
    /\ homePrice = NULL
    /\ mortgageIdle
    /\ appIdle
    /\ entries \in EntryLists
    /\ values = <<>>
    /\ medianResult = NULL
    /\ stats = NoRecord
    /\ statsAgain = NoRecord
    /\ polygon = NoRecord
    /\ nationwide = NoRecord
    /\ isochroneResult = NoRecord

(* The call median(homeValues) of buildStats.                              *)
Median ==
    /\ pc = "idle"
    /\ medianResult' = median(homeValuesOf(entries))
    /\ values' = valuesAfterMedian(homeValuesOf(entries))
    /\ pc' = "median"
    /\ UNCHANGED <<entries, stats, statsAgain, polygon, nationwide,
                   isochroneResult>>
    /\ UNCHANGED <<inputs, homePrice, principal, tier, payment, low, high, iter,
                   maxPrice, effectiveMaxPrice, breakdown>>
    /\ UNCHANGED avars

(* A first call of buildStats(entries).                                    *)
BuildStats ==
    /\ pc = "idle"
    /\ stats' = buildStats(entries, metaCache)
    /\ pc' = "stats"
    /\ UNCHANGED <<entries, values, medianResult, statsAgain, polygon, nationwide,
                   isochroneResult>>
    /\ UNCHANGED <<inputs, homePrice, principal, tier, payment, low, high, iter,
                   maxPrice, effectiveMaxPrice, breakdown>>
    /\ UNCHANGED avars

(* A second call of buildStats on the same list.                           *)
BuildStatsAgain ==
    /\ pc = "stats"
    /\ statsAgain' = buildStats(entries, metaCache)
    /\ pc' = "again"
    /\ UNCHANGED <<entries, values, medianResult, stats, polygon, nationwide,
                   isochroneResult>>
    /\ UNCHANGED <<inputs, homePrice, principal, tier, payment, low, high, iter,
                   maxPrice, effectiveMaxPrice, breakdown>>
    /\ UNCHANGED avars

(* The first loadHousingData resolves.                                     *)
LoadHousingData ==
    /\ housingDataCache = <<>>
    /\ \E fetched \in FetchOutcomes :
          /\ housingDataCache' = loadHousingData(housingDataCache, fetched)
          /\ metaCache' = loadedMeta(housingDataCache, metaCache, fetched)
    /\ UNCHANGED <<state, affordability, locationRef, tasks, centroidCache, zctaCache>>
    /\ UNCHANGED <<mvars, dvars>>

StatsNext == Median \/ BuildStats \/ BuildStatsAgain \/ LoadHousingData

StatsSpec == StatsInit /\ [][StatsNext]_vars

(***************************************************************************)
(* JoinSpec: getHousingForIsochrone and getAffordableNationwide over the   *)
(* raw housing tables and centroid tables of the bounded input space, the  *)
(* two data files already loaded into the caches.                          *)
(***************************************************************************)

(* The records a ZIP can have in the raw table, NoRecord for none: without *)
(* a home value, without a state, and at the prices that the incomes of    *)
(* the form find affordable, a stretch and unaffordable.                   *)
RecordChoices ==
    << {NoRecord,
        [zip |-> "43001", state |-> "OH", medianHomeValue |-> Dollars(80000),
         medianRent |-> Dollars(800)],
        [zip |-> "43001", state |-> "OH", medianHomeValue |-> NULL,
         medianRent |-> Dollars(800)]},
       {NoRecord,
        [zip |-> "43002", state |-> "OH", medianHomeValue |-> Dollars(200000),
         medianRent |-> NULL]},
       {NoRecord,
        [zip |-> "43003", state |-> "OH", medianHomeValue |-> Dollars(600000),
         medianRent |-> Dollars(2500)]},
       {NoRecord,
        [zip |-> "43004", state |-> "OH", medianHomeValue |-> NULL,
         medianRent |-> Dollars(700)]},
       {NoRecord,
        [zip |-> "75001", state |-> "TX", medianHomeValue |-> Dollars(400000),
         medianRent |-> Dollars(1500)],
        [zip |-> "75001", state |-> NONE, medianHomeValue |-> Dollars(120000),
         medianRent |-> Dollars(1000)]} >>

isRecord(r) == r # NoRecord

RawTables ==
    {SelectSeq(choice, isRecord) :
        choice \in {c \in [DOMAIN RecordChoices -> UNION SeqRange(RecordChoices)] :
                       \A i \in DOMAIN RecordChoices : c[i] \in RecordChoices[i]}}

(* The ZIPs a centroid table can hold; 82001 has no record in any raw      *)
(* table.                                                                  *)
CentroidZips == <<"43001", "43002", "43003", "43004", "75001", "82001">>

CentroidTables ==
    {SelectSeq(CentroidZips, LAMBDA z : z \in held) : held \in SUBSET SeqRange(CentroidZips)}

Polygons ==
    {[location |-> "Columbus", mode |-> "drive", minutes |-> m] : m \in {15, 30}}

JoinInit ==
    /\ inputs \in AffordabilityChoices
    /\ homePrice = NULL
    /\ mortgageIdle
    /\ state = initialAppState
    /\ affordability = initialAffordability
    /\ locationRef = NONE
    /\ tasks = {}
    /\ housingDataCache \in {<<table>> : table \in RawTables}
    /\ metaCache = metaJson
    /\ centroidCache \in {<<table>> : table \in CentroidTables}
    /\ zctaCache = {}
    /\ entries = <<>>
    /\ values = <<>>
    /\ medianResult = NULL
    /\ stats = NoRecord
    /\ statsAgain = NoRecord
    /\ polygon \in Polygons
    /\ nationwide = NoRecord
    /\ isochroneResult = NoRecord

(* A call of getHousingForIsochrone(polygon); both loads return the        *)
(* caches.                                                                 *)
HousingForIsochrone ==
    /\ pc = "idle"
    /\ stats' = getHousingForIsochrone(polygon,
                     loadHousingData(housingDataCache, TRUE)[1],
                     loadCentroids(centroidCache, TRUE)[1], metaCache)
    /\ pc' = "joined"
    /\ UNCHANGED <<entries, values, medianResult, statsAgain, polygon, nationwide,
                   isochroneResult>>
    /\ UNCHANGED <<inputs, homePrice, principal, tier, payment, low, high, iter,
                   maxPrice, effectiveMaxPrice, breakdown>>
    /\ UNCHANGED avars

(* A call of getAffordableNationwide(inputs).                              *)
AffordableNationwide ==
    /\ pc = "idle"
    /\ nationwide' = getAffordableNationwide(inputs,
                          loadHousingData(housingDataCache, TRUE)[1],
                          loadCentroids(centroidCache, TRUE)[1], metaCache)
    /\ pc' = "nationwide"
    /\ UNCHANGED <<entries, values, medianResult, stats, statsAgain, polygon,
                   isochroneResult>>
    /\ UNCHANGED <<inputs, homePrice, principal, tier, payment, low, high, iter,
                   maxPrice, effectiveMaxPrice, breakdown>>
    /\ UNCHANGED avars

(* A call of getAffordableForIsochrone(polygon, inputs).                   *)
AffordableForIsochrone ==
    /\ pc = "idle"
    /\ isochroneResult' = getAffordableForIsochrone(polygon, inputs,
                              loadHousingData(housingDataCache, TRUE)[1],
                              loadCentroids(centroidCache, TRUE)[1], metaCache)
    /\ pc' = "markers"
    /\ UNCHANGED <<entries, values, medianResult, stats, statsAgain, polygon,
                   nationwide>>
    /\ UNCHANGED <<inputs, homePrice, principal, tier, payment, low, high, iter,
                   maxPrice, effectiveMaxPrice, breakdown>>
    /\ UNCHANGED avars

JoinNext == HousingForIsochrone \/ AffordableNationwide \/ AffordableForIsochrone

JoinSpec == JoinInit /\ [][JoinNext]_vars

(***************************************************************************)
(* OrderSpec: getAffordableNationwide over raw tables in which the ZIPs of *)
(* one state lie on both sides of the ZIPs of another, as those of Texas   *)
(* (73301, 75001) do around Oklahoma's (74001).                            *)
(***************************************************************************)
orderRecord(zip, stateCode, dollars) ==
    [zip |-> zip, state |-> stateCode, medianHomeValue |-> Dollars(dollars),
     medianRent |-> NULL]

OrderRecordChoices ==
    << {NoRecord} \cup {orderRecord("43001", "OH", d) : d \in {80000, 600000}},
       {NoRecord} \cup {orderRecord("73301", "TX", d) : d \in {80000, 600000}},
       {NoRecord} \cup {orderRecord("74001", "OK", d) : d \in {80000, 600000}},
       {NoRecord} \cup {orderRecord("75001", "TX", d) : d \in {80000, 200000, 600000}} >>

OrderTables ==
    {SelectSeq(choice, isRecord) :
        choice \in {c \in [DOMAIN OrderRecordChoices -> UNION SeqRange(OrderRecordChoices)] :
                       \A i \in DOMAIN OrderRecordChoices : c[i] \in OrderRecordChoices[i]}}

OrderZips == <<"43001", "73301", "74001", "75001">>

OrderCentroidTables ==
    {SelectSeq(OrderZips, LAMBDA z : z \in held) : held \in SUBSET SeqRange(OrderZips)}

OrderInit ==
    /\ inputs \in AffordabilityChoices
    /\ homePrice = NULL
    /\ mortgageIdle
    /\ state = initialAppState
    /\ affordability = initialAffordability
    /\ locationRef = NONE
    /\ tasks = {}
    /\ housingDataCache \in {<<table>> : table \in OrderTables}
    /\ metaCache = metaJson
    /\ centroidCache \in {<<table>> : table \in OrderCentroidTables}
    /\ zctaCache = {}
    /\ dataIdle

OrderNext == AffordableNationwide

OrderSpec == OrderInit /\ [][OrderNext]_vars

(***************************************************************************)
(* Properties of getAffordabilityTier (TierSpec).                          *)
(***************************************************************************)
known == homePrice # NULL /\ inputs.annualIncome # NULL /\ inputs.annualIncome > 0

spendingApplied == inputs.includeSpending /\ inputs.monthlySpending > 0

classifiedWithSpending == pc = "classified" /\ known /\ spendingApplied

cushionReached ==
    remainingCashFlow12(homePrice, inputs) >= 12 * Dollars(MINIMUM_MONTHLY_CUSHION)

TierRank(t) ==
    CASE t = "affordable"   -> 3
      [] t = "stretch"      -> 2
      [] t = "unaffordable" -> 1
      [] OTHER              -> 0

(* C1: with the cash-flow check applied, a home whose base DTI tier is    *)
(* affordable, whose remaining cash flow is at least 500 dollars and      *)
(* whose cashFlowPct is below 0.15 is classified unaffordable in the same *)
(* call, never stretch.                                                    *)
C1_CascadeInOnePass ==
    ( /\ classifiedWithSpending
      /\ baseTier(homePrice, inputs) = "affordable"
      /\ cushionReached
      /\ cashFlowPctBelow(homePrice, inputs, AffordableCushionPct) )
    => tier = "unaffordable"

C1_Witness ==
    /\ classifiedWithSpending
    /\ baseTier(homePrice, inputs) = "affordable"
    /\ cushionReached
    /\ cashFlowPctBelow(homePrice, inputs, AffordableCushionPct)
    /\ tier = "unaffordable"

(* C2: the tier returned with includeSpending true is never better than   *)
(* the tier returned for the same price and inputs with includeSpending   *)
(* false (affordable > stretch > unaffordable), and is unknown exactly    *)
(* when that one is.                                                       *)
C2_CascadeOnlyDowngrades ==
    (pc = "classified" /\ inputs.includeSpending)
    => LET without == getAffordabilityTier(homePrice,
                          [inputs EXCEPT !.includeSpending = FALSE])
       IN  /\ (tier = "unknown") <=> (without = "unknown")
           /\ TierRank(tier) <= TierRank(without)

C2_Witness ==
    /\ classifiedWithSpending
    /\ getAffordabilityTier(homePrice, [inputs EXCEPT !.includeSpending = FALSE])
          = "stretch"
    /\ ~cashFlowPctBelow(homePrice, inputs, StretchCushionPct)
    /\ tier = "stretch"

(* C3: getAffordabilityTier returns unknown exactly when homePrice is     *)
(* null, annualIncome is null or annualIncome <= 0.                        *)
C3_UnknownIffMissing ==
    pc = "classified"
    => ((tier = "unknown") <=>
           (\/ homePrice = NULL
            \/ inputs.annualIncome = NULL
            \/ inputs.annualIncome <= 0))

C3_Witness ==
    /\ pc = "classified"
    /\ homePrice # NULL
    /\ inputs.annualIncome = 0
    /\ spendingApplied
    /\ tier = "unknown"

(* C4: without the cash-flow check, the tier is affordable when           *)
(* (housingPayment + monthlyDebts) / (annualIncome / 12) <= frontDtiPct / *)
(* 100, stretch when it is above that and <= backDtiPct / 100, and        *)
(* unaffordable otherwise; both thresholds are inclusive.                  *)
C4_BaseTier ==
    (pc = "classified" /\ known /\ ~spendingApplied)
    => LET debts12 == 12 * (calculateFullMonthlyPayment(homePrice, inputs).total
                               + inputs.monthlyDebts)
           front   == inputs.frontDtiPct * inputs.annualIncome
           back    == inputs.backDtiPct * inputs.annualIncome
       IN  tier = IF debts12 * 100 <= front THEN "affordable"
                  ELSE IF debts12 * 100 <= back THEN "stretch"
                  ELSE "unaffordable"

(* The DTI ratio sits exactly on the back-end threshold and the tier is   *)
(* stretch.                                                                *)
C4_Witness ==
    /\ pc = "classified" /\ known /\ ~spendingApplied
    /\ 1200 * (calculateFullMonthlyPayment(homePrice, inputs).total
                  + inputs.monthlyDebts)
          = inputs.backDtiPct * inputs.annualIncome
    /\ tier = "stretch"

(* C5: with the cash-flow check applied, a remaining cash flow below 500  *)
(* dollars, negative or not, gives unaffordable whatever the base tier    *)
(* and cashFlowPct are.                                                    *)
C5_BelowCushionUnaffordable ==
    (classifiedWithSpending /\ ~cushionReached) => tier = "unaffordable"

(* Base tier affordable, 0 <= remaining < 500 and cashFlowPct >= 0.15:    *)
(* only the dollar floor makes the home unaffordable.                      *)
C5_Witness ==
    /\ classifiedWithSpending
    /\ baseTier(homePrice, inputs) = "affordable"
    /\ remainingCashFlow12(homePrice, inputs) >= 0
    /\ ~cushionReached
    /\ ~cashFlowPctBelow(homePrice, inputs, AffordableCushionPct)
    /\ tier = "unaffordable"

(* C6: with the cash-flow check applied, base DTI tier affordable,        *)
(* remaining cash flow at least 500 and 0.15 <= cashFlowPct < 0.25, the   *)
(* tier returned is stretch.                                               *)
C6_AffordableToStretchOnly ==
    ( /\ classifiedWithSpending
      /\ baseTier(homePrice, inputs) = "affordable"
      /\ cushionReached
      /\ ~cashFlowPctBelow(homePrice, inputs, AffordableCushionPct)
      /\ cashFlowPctBelow(homePrice, inputs, StretchCushionPct) )
    => tier = "stretch"

(* C7: with includeSpending false the tier is the base DTI tier, the same *)
(* for every value of monthlySpending.                                     *)
C7_SpendingIgnoredWhenDisabled ==
    (pc = "classified" /\ known /\ ~inputs.includeSpending)
    => /\ tier = baseTier(homePrice, inputs)
       /\ \A s \in Spendings :
             getAffordabilityTier(homePrice, [inputs EXCEPT !.monthlySpending = s])
                = tier

(* Spending that would leave a negative cash flow, and the tier is still  *)
(* affordable.                                                             *)
C7_Witness ==
    /\ pc = "classified" /\ known /\ ~inputs.includeSpending
    /\ inputs.monthlySpending > 0
    /\ remainingCashFlow12(homePrice, inputs) < 0
    /\ tier = "affordable"

(***************************************************************************)
(* Properties of the App component (AppSpec).                              *)
(***************************************************************************)

(* The medianHomeValue of the entry a marker was built from: the one of    *)
(* the ZIP's record in the housing table.                                  *)
markerHomeValue(marker) ==
    IF recordOf(housingDataJson, marker.zip) = NoRecord THEN NULL
    ELSE recordOf(housingDataJson, marker.zip).medianHomeValue

(* C8: in every reachable state of the application, each marker of         *)
(* zipMarkers carries the tier that getAffordabilityTier gives the         *)
(* medianHomeValue of its entry under the current affordability inputs.    *)
C8_MarkersCarryCurrentTier ==
    \A i \in DOMAIN state.zipMarkers :
        state.zipMarkers[i].tier
            = getAffordabilityTier(markerHomeValue(state.zipMarkers[i]),
                                   affordability)

(***************************************************************************)
(* Properties of the solver and of calculateMonthlyPayment (SolverSpec).   *)
(***************************************************************************)

(* The DTI ratio (total + monthlyDebts) / (annualIncome / 12) of a price, *)
(* in millionths, rounded down.                                            *)
dtiPpm(price) ==
    MulDiv(12 * (calculateFullMonthlyPayment(price, inputs).total
                    + inputs.monthlyDebts),
           1000000, inputs.annualIncome)

dtiNearFront == LET d == dtiPpm(maxPrice) - inputs.frontDtiPct * 10000
                IN  d <= 1000 /\ -d <= 1000

positiveIncome == inputs.annualIncome # NULL /\ inputs.annualIncome > 0

(* The price that meets the budget lies in the search bracket             *)
(* [0, 10 * annualIncome]: the payment at price 0 plus the debts is below *)
(* the front-end budget and the payment at the top of the bracket plus    *)
(* the debts reaches it.                                                   *)
solutionInBracket ==
    /\ 1200 * (calculateFullMonthlyPayment(0, inputs).total + inputs.monthlyDebts)
          < inputs.frontDtiPct * inputs.annualIncome
    /\ 1200 * (calculateFullMonthlyPayment(inputs.annualIncome * 10, inputs).total
                  + inputs.monthlyDebts)
          >= inputs.frontDtiPct * inputs.annualIncome

C10_DegenerateInputsGiveZero ==
    /\ (payment # NULL /\ principal <= 0) => payment = 0
    /\ ( /\ pc = "solved"
         /\ \/ inputs.annualIncome = NULL
            \/ inputs.annualIncome <= 0
            \/ inputs.monthlyDebts * 1200
                  >= inputs.annualIncome * inputs.frontDtiPct )
       => maxPrice = 0

(* A negative principal has been amortized to 0 and the solver has        *)
(* returned 0 for debts exactly equal to the front-end budget.             *)
C10_Witness ==
    /\ payment = 0 /\ principal < 0
    /\ pc = "solved" /\ positiveIncome
    /\ inputs.monthlyDebts * 1200 = inputs.annualIncome * inputs.frontDtiPct
    /\ maxPrice = 0

(* The values a single field of inputs is moved to, the other fields held  *)
(* fixed.                                                                  *)
IncomeAlternatives == Incomes \ {NULL}

FrontDtiAlternatives == {20, 28, 36}

DownPaymentAlternatives == {0, 5, 20, 50}

(* a <= b implies fa <= fb, and the same with a and b exchanged.           *)
sameOrder(a, b, fa, fb) == (a <= b => fa <= fb) /\ (b <= a => fb <= fa)

(* C11: holding all other fields fixed, raising annualIncome, frontDtiPct  *)
(* or downPaymentPct never lowers the result of calculateMaxHomePrice, and *)
(* raising monthlyDebts never raises it.                                   *)
C11_MaxPriceMonotone ==
    pc = "solved"
    => /\ inputs.annualIncome # NULL
          => \A v \in IncomeAlternatives :
                sameOrder(inputs.annualIncome, v, maxPrice,
                          calculateMaxHomePrice([inputs EXCEPT !.annualIncome = v]))
       /\ \A v \in FrontDtiAlternatives :
             sameOrder(inputs.frontDtiPct, v, maxPrice,
                       calculateMaxHomePrice([inputs EXCEPT !.frontDtiPct = v]))
       /\ \A v \in DownPaymentAlternatives :
             sameOrder(inputs.downPaymentPct, v, maxPrice,
                       calculateMaxHomePrice([inputs EXCEPT !.downPaymentPct = v]))
       /\ \A v \in SolverDebts :
             sameOrder(v, inputs.monthlyDebts, maxPrice,
                       calculateMaxHomePrice([inputs EXCEPT !.monthlyDebts = v]))

(* A solved price that a higher income, a higher front-end DTI and a down  *)
(* payment across the PMI boundary each raise, and that higher debts       *)
(* lower.                                                                  *)
C11_Witness ==
    /\ pc = "solved" /\ positiveIncome /\ maxPrice > 0
    /\ inputs.downPaymentPct < 20
    /\ \E v \in IncomeAlternatives :
          /\ v > inputs.annualIncome
          /\ calculateMaxHomePrice([inputs EXCEPT !.annualIncome = v]) > maxPrice
    /\ calculateMaxHomePrice([inputs EXCEPT !.frontDtiPct = 36]) > maxPrice
    /\ calculateMaxHomePrice([inputs EXCEPT !.downPaymentPct = 20]) > maxPrice
    /\ \E v \in SolverDebts :
          /\ v > inputs.monthlyDebts
          /\ calculateMaxHomePrice([inputs EXCEPT !.monthlyDebts = v]) < maxPrice

(* inputs with its two spending fields replaced.                           *)
withSpending(s, f) ==
    [inputs EXCEPT !.monthlySpending = s, !.includeSpending = f]

(* C12: two inputs records that differ only in monthlySpending and         *)
(* includeSpending give the same calculateMaxHomePrice result.             *)
C12_SpendingLeavesMaxPrice ==
    pc = "solved"
    => \A s \in Spendings : \A f \in BOOLEAN :
          calculateMaxHomePrice(withSpending(s, f)) = maxPrice

(* A price the loop has solved for, which spending that is included makes  *)
(* unaffordable without moving it.                                         *)
C12_Witness ==
    /\ pc = "solved" /\ positiveIncome /\ maxPrice > 0
    /\ \E s \in Spendings :
          /\ s > 0
          /\ getAffordabilityTier(maxPrice, withSpending(s, TRUE))
                # getAffordabilityTier(maxPrice, inputs)
          /\ calculateMaxHomePrice(withSpending(s, TRUE)) = maxPrice

(***************************************************************************)
(* Properties of getEffectiveMaxPrice (EffectiveSpec).                     *)
(***************************************************************************)

(* C13: getEffectiveMaxPrice returns manualMaxPrice unchanged when         *)
(* useManualMaxPrice is true and manualMaxPrice is a positive number,      *)
(* whatever annualIncome is; otherwise null when annualIncome is null or   *)
(* <= 0; otherwise the price calculateMaxHomePrice solves for, also when   *)
(* useManualMaxPrice is true with manualMaxPrice null or 0.                *)
C13_EffectiveMaxPrice ==
    pc = "effective"
    => effectiveMaxPrice
          = IF /\ inputs.useManualMaxPrice
               /\ inputs.manualMaxPrice # NULL
               /\ inputs.manualMaxPrice > 0
            THEN inputs.manualMaxPrice
            ELSE IF inputs.annualIncome = NULL \/ inputs.annualIncome <= 0
                 THEN NULL
            ELSE maxPrice

(* The manual price is switched on but 0, and the solved price is          *)
(* returned.                                                               *)
C13_Witness ==
    /\ pc = "effective"
    /\ inputs.useManualMaxPrice /\ inputs.manualMaxPrice = 0
    /\ positiveIncome
    /\ maxPrice > 0
    /\ effectiveMaxPrice = maxPrice

(***************************************************************************)
(* Properties of calculateFullMonthlyPayment (PaymentSpec).                *)
(***************************************************************************)

(* The loan amount of the payment under check.                             *)
loanAmountOf(price) == MulDiv(price, 100 - inputs.downPaymentPct, 100)

(* C14: for every positive home price, calculateFullMonthlyPayment returns *)
(* pmi = loanAmount * 0.007 / 12 > 0 when downPaymentPct < 20 and pmi = 0  *)
(* when downPaymentPct >= 20, with no phase-in.                            *)
C14_PmiBoundary ==
    (pc = "paid" /\ homePrice > 0)
    => IF inputs.downPaymentPct < 20
       THEN /\ breakdown.pmi = MulDiv(loanAmountOf(homePrice), 7, 12000)
            /\ breakdown.pmi > 0
       ELSE breakdown.pmi = 0

(* A loan with exactly 20 % down pays no PMI.                              *)
C14_Witness ==
    /\ pc = "paid" /\ homePrice > 0
    /\ inputs.downPaymentPct = 20
    /\ breakdown.pmi = 0
    /\ breakdown.total = breakdown.principal + breakdown.tax
                             + breakdown.insurance + breakdown.hoa

(***************************************************************************)
(* Properties of median and buildStats (StatsSpec).                        *)
(***************************************************************************)

(* The positions of a column that hold a number, and the number that k of  *)
(* the others are below (k from 0) when they are put in ascending order.   *)
nonNullAt(col) == {i \in DOMAIN col : col[i] # NULL}

rankedNonNull(col, k) ==
    CHOOSE v \in {col[i] : i \in nonNullAt(col)} :
        /\ Cardinality({i \in nonNullAt(col) : col[i] < v}) <= k
        /\ Cardinality({i \in nonNullAt(col) : col[i] <= v}) > k

expectedMedian(col) ==
    LET n == Cardinality(nonNullAt(col))
    IN  IF n = 0 THEN NULL
        ELSE IF n % 2 = 1 THEN rankedNonNull(col, n \div 2)
        ELSE (rankedNonNull(col, n \div 2 - 1) + rankedNonNull(col, n \div 2)) \div 2

expectedMin(col) ==
    IF nonNullAt(col) = {} THEN NULL ELSE rankedNonNull(col, 0)

expectedMax(col) ==
    IF nonNullAt(col) = {} THEN NULL
    ELSE rankedNonNull(col, Cardinality(nonNullAt(col)) - 1)

homeColumn == [i \in DOMAIN entries |-> entries[i].medianHomeValue]

rentColumn == [i \in DOMAIN entries |-> entries[i].medianRent]

(* C15: median returns null for an empty sequence, the middle element of   *)
(* the ascending order for an odd length and the average of the two middle *)
(* elements for an even length, and the caller's sequence keeps its        *)
(* original order.                                                         *)
C15_Median ==
    pc = "median"
    => /\ medianResult = expectedMedian(values)
       /\ values = SelectSeq(homeColumn, notNull)

(* Four values handed in out of order, their median the average of the     *)
(* two middle ones and none of them.                                       *)
C15_Witness ==
    /\ pc = "median"
    /\ Len(values) = 4
    /\ values # sortAscending(values)
    /\ medianResult \notin SeqRange(values)
    /\ 2 * medianResult = rankedNonNull(values, 1) + rankedNonNull(values, 2)

(* C16: buildStats over any entry list, the empty one included: zipCount   *)
(* is the number of entries; the median, minimum and maximum home value    *)
(* and rent are those of the non-null values only, null when there is      *)
(* none; the entries field is the input list.                              *)
C16_BuildStats ==
    pc = "stats"
    => /\ stats.zipCount = Len(entries)
       /\ stats.medianHomeValue = expectedMedian(homeColumn)
       /\ stats.minHomeValue = expectedMin(homeColumn)
       /\ stats.maxHomeValue = expectedMax(homeColumn)
       /\ stats.medianRent = expectedMedian(rentColumn)
       /\ stats.minRent = expectedMin(rentColumn)
       /\ stats.maxRent = expectedMax(rentColumn)
       /\ stats.entries = entries

(* Two entries without a home value are counted but left out of the home   *)
(* value figures, and a single rent is median, minimum and maximum.        *)
C16_Witness ==
    /\ pc = "stats"
    /\ stats.zipCount = 4
    /\ Cardinality(nonNullAt(homeColumn)) = 2
    /\ stats.minHomeValue # NULL
    /\ stats.minHomeValue < stats.medianHomeValue
    /\ stats.medianHomeValue < stats.maxHomeValue
    /\ Cardinality(nonNullAt(rentColumn)) = 1
    /\ stats.medianRent # NULL
    /\ stats.minRent = stats.maxRent

(* C17: two calls of buildStats with the same entry list return identical  *)
(* HousingStats in every field, meta included, whether they are made       *)
(* before or after the raw housing table has been loaded.                  *)
C17_RepeatedCallsAgree == pc = "again" => statsAgain = stats

(***************************************************************************)
(* Properties of the joins (JoinSpec).                                     *)
(***************************************************************************)
rawTable == housingDataCache[1]

centroidTable == centroidCache[1]

(* The centroids of the centroid table that lie inside the polygon.        *)
centroidsInside == {z \in SeqRange(centroidTable) : withinPolygon(z, polygon)}

entriesOfZip(list, z) == {i \in DOMAIN list : list[i].zip = z}

rawRecordsOfZip(z) == {i \in DOMAIN rawTable : rawTable[i].zip = z}

hasCentroid(data) == data.zip \in SeqRange(centroidTable)

(* The raw records whose ZIP has no entry in the centroid table.           *)
centroidless == {i \in DOMAIN rawTable : ~hasCentroid(rawTable[i])}

(* The states of the output that carry the code of the record data.        *)
summariesOf(data) ==
    {i \in DOMAIN nationwide.states : nationwide.states[i].state = data.state}

(* The raw records that are counted for the state code: centroid-matched,  *)
(* of that state and with a home value.                                    *)
countedRecords(code) ==
    {i \in DOMAIN rawTable :
        /\ hasCentroid(rawTable[i])
        /\ rawTable[i].state = code
        /\ rawTable[i].medianHomeValue # NULL}

(* C19: a raw record whose ZIP has no entry in the centroid table          *)
(* contributes to nothing in the output of getAffordableNationwide: its    *)
(* ZIP is in no allEntries and in no stats, and the output, every state's  *)
(* totalZips and tier counts included, is the output for the raw table     *)
(* without the centroid-less records.                                      *)
C19_CentroidlessContributesNothing ==
    pc = "nationwide"
    => /\ \A i \in centroidless :
              /\ entriesOfZip(nationwide.allEntries, rawTable[i].zip) = {}
              /\ entriesOfZip(nationwide.stats.entries, rawTable[i].zip) = {}
       /\ nationwide = getAffordableNationwide(inputs,
                           SelectSeq(rawTable, hasCentroid), centroidTable,
                           metaCache)
       /\ \A i \in DOMAIN nationwide.states :
              nationwide.states[i].totalZips
                  = Cardinality(countedRecords(nationwide.states[i].state))

(* An affordable record without a centroid beside a counted record of the  *)
(* same state.                                                             *)
C19_Witness ==
    /\ pc = "nationwide"
    /\ \E i \in centroidless :
           /\ rawTable[i].medianHomeValue # NULL
           /\ getAffordabilityTier(rawTable[i].medianHomeValue, inputs) = "affordable"
           /\ \E k \in summariesOf(rawTable[i]) :
                  /\ nationwide.states[k].totalZips = 1
                  /\ nationwide.states[k].affordableCount = 0

tierOfRecord(data) == getAffordabilityTier(data.medianHomeValue, inputs)

withinReach(data) == tierOfRecord(data) \in {"affordable", "stretch"}

(* What the loop of getAffordableNationwide leaves for the raw table.      *)
loopOutcome == nationwideLoop(Len(rawTable), rawTable, centroidTable, inputs)

zipsOf(list) == {list[i].zip : i \in DOMAIN list}

(* The ZIPs of the counted records grouped under the state code that are,  *)
(* or are not, within reach.                                               *)
reachZips(code, reach) ==
    {rawTable[i].zip : i \in {k \in DOMAIN rawTable :
                                /\ hasCentroid(rawTable[k])
                                /\ stateCodeOf(rawTable[k]) = code
                                /\ rawTable[k].medianHomeValue # NULL
                                /\ withinReach(rawTable[k]) = reach}}

firstRecord(code) ==
    CHOOSE i \in DOMAIN rawTable :
        /\ rawTable[i].state = code
        /\ \A k \in 1..(i - 1) : rawTable[k].state # code

firstMatchedRecord(code) ==
    CHOOSE i \in DOMAIN rawTable :
        /\ rawTable[i].state = code /\ hasCentroid(rawTable[i])
        /\ \A k \in 1..(i - 1) : ~(rawTable[k].state = code /\ hasCentroid(rawTable[k]))

(* The states list is ordered by pctAffordable descending, ties in the     *)
(* order that place(_) gives their states.                                 *)
orderedWithTies(place(_)) ==
    \A i, j \in DOMAIN nationwide.states :
        i < j => LET a == nationwide.states[i]
                     b == nationwide.states[j]
                 IN  /\ a.pctAffordable >= b.pctAffordable
                     /\ a.pctAffordable = b.pctAffordable
                        => place(a.state) < place(b.state)

(* C22: the states list returned by getAffordableNationwide is ordered by  *)
(* pctAffordable descending, and two states with equal pctAffordable       *)
(* appear in the order in which the loop first met a record of theirs that *)
(* has a centroid, the records without a centroid being passed over.       *)
C22_StatesOrdered ==
    pc = "nationwide" => orderedWithTies(firstMatchedRecord)

(* C22 as stated: ties appear in the order of the states' first records in *)
(* the raw table.                                                          *)
C22_TiesByFirstRecord ==
    pc = "nationwide" => orderedWithTies(firstRecord)

(* Three states, the first above the other two, which tie; the second of   *)
(* the two has the earlier record in the raw table, one without a          *)
(* centroid.                                                               *)
C22_Witness ==
    /\ pc = "nationwide"
    /\ Len(nationwide.states) = 3
    /\ nationwide.states[1].pctAffordable > nationwide.states[2].pctAffordable
    /\ nationwide.states[2].pctAffordable = nationwide.states[3].pctAffordable
    /\ firstRecord(nationwide.states[3].state)
           < firstRecord(nationwide.states[2].state)

(***************************************************************************)
(* Properties of getAffordableForIsochrone (JoinSpec).                     *)
(***************************************************************************)
MarkerTiers == {"affordable", "stretch", "unaffordable"}

(* The tier of an entry of the isochrone join under the inputs.            *)
tierOfEntry(entry) == getAffordabilityTier(entry.medianHomeValue, inputs)

markersOfZip(z) ==
    {k \in DOMAIN isochroneResult.zipMarkers : isochroneResult.zipMarkers[k].zip = z}

(* C23: getAffordableForIsochrone returns a marker for exactly those       *)
(* entries of the isochrone join whose tier is affordable, stretch or      *)
(* unaffordable, carrying that tier; an entry classified unknown has no    *)
(* marker and is still in stats.entries and counted in stats.zipCount.     *)
C23_MarkersForKnownTiers ==
    pc = "markers"
    => LET joined == isochroneResult.stats.entries
           withTier == {i \in DOMAIN joined : tierOfEntry(joined[i]) \in MarkerTiers}
       IN  /\ isochroneResult.stats
                  = getHousingForIsochrone(polygon, rawTable, centroidTable, metaCache)
           /\ isochroneResult.stats.zipCount = Len(joined)
           /\ Len(isochroneResult.zipMarkers) = Cardinality(withTier)
           /\ \A k \in DOMAIN isochroneResult.zipMarkers :
                  isochroneResult.zipMarkers[k].tier \in MarkerTiers
           /\ \A i \in DOMAIN joined :
                  IF i \in withTier
                  THEN /\ Cardinality(markersOfZip(joined[i].zip)) = 1
                       /\ \A k \in markersOfZip(joined[i].zip) :
                              isochroneResult.zipMarkers[k].tier = tierOfEntry(joined[i])
                  ELSE markersOfZip(joined[i].zip) = {}

(* Three entries, one of them of a centroid without a raw record: counted, *)
(* without a marker, beside a stretch and an unaffordable marker.          *)
C23_Witness ==
    /\ pc = "markers"
    /\ isochroneResult.stats.zipCount = 3
    /\ Len(isochroneResult.zipMarkers) = 2
    /\ \E i \in DOMAIN isochroneResult.stats.entries :
           /\ isochroneResult.stats.entries[i].zip = "82001"
           /\ tierOfEntry(isochroneResult.stats.entries[i]) = "unknown"
    /\ \E k \in DOMAIN isochroneResult.zipMarkers :
           isochroneResult.zipMarkers[k].tier = "unaffordable"
    /\ \E k \in DOMAIN isochroneResult.zipMarkers :
           isochroneResult.zipMarkers[k].tier = "stretch"

(***************************************************************************)
(* Properties of the reducer in the application (AppSpec).                 *)
(***************************************************************************)

(* The entries of a list whose state is the state code.                    *)
entriesOfState(list, stateCode) ==
    SelectSeq(list, LAMBDA e : e.state = stateCode)

(* C24: after STATE_CLICK with stateCode s, housingStats is buildStats of  *)
(* exactly the entries of allNationwideEntries whose state is s,           *)
(* selectedState is s, and allNationwideEntries and stateData are          *)
(* unchanged.                                                              *)
C24_StateClickRefilters ==
    [][\A s \in StateCodes :
          StateClick(s)
          => /\ state'.housingStats
                    = buildStats(entriesOfState(state.allNationwideEntries, s),
                                 metaCache)
             /\ state'.selectedState = s
             /\ state'.allNationwideEntries = state.allNationwideEntries
             /\ state'.stateData = state.stateData]_vars

(* A click on a state none of whose ZIPs is within reach, while the        *)
(* entries of another state are held: the stats are those of no entry.     *)
C24_Witness ==
    /\ state.selectedState = "TX"
    /\ state.zctaLoading
    /\ Len(state.allNationwideEntries) = 2
    /\ Len(state.stateData) = 2
    /\ state.housingStats # NoRecord
    /\ state.housingStats.zipCount = 0
    /\ entriesOfState(state.allNationwideEntries, "TX") = <<>>


(* The markers of a list that are not unaffordable.                        *)
withoutUnaffordable(markers) ==
    SelectSeq(markers, LAMBDA m : m.tier # "unaffordable")

(* The state after one more change of the checkbox.                        *)
toggled(s) == patch(s, [showUnaffordable |-> ~s.showUnaffordable])

(* C25: the show-unaffordable toggle is a pure filter.  A change of        *)
(* showUnaffordable leaves zipMarkers, with every stored tier, and         *)
(* housingStats unchanged; the displayed marker list is zipMarkers itself  *)
(* when showUnaffordable is true and zipMarkers without the unaffordable   *)
(* markers when it is false; toggling twice restores the displayed list.   *)
C25_ToggleIsPureFilter ==
    [][ToggleShowUnaffordable
       => /\ state'.showUnaffordable = ~state.showUnaffordable
          /\ state'.zipMarkers = state.zipMarkers
          /\ state'.housingStats = state.housingStats
          /\ filteredZipMarkers(state')
                 = IF state'.showUnaffordable THEN state'.zipMarkers
                   ELSE withoutUnaffordable(state'.zipMarkers)
          /\ filteredZipMarkers(state)
                 = IF state.showUnaffordable THEN state.zipMarkers
                   ELSE withoutUnaffordable(state.zipMarkers)
          /\ filteredZipMarkers(rendered(state', affordability, toggled(state'),
                                         affordability, FALSE))
                 = filteredZipMarkers(state)]_vars

(* The checkbox is off over markers one of which is unaffordable: the      *)
(* displayed list is shorter than the stored one.                          *)
C25_Witness ==
    /\ ~state.showUnaffordable
    /\ \E i \in DOMAIN state.zipMarkers : state.zipMarkers[i].tier = "unaffordable"
    /\ \E i \in DOMAIN state.zipMarkers : state.zipMarkers[i].tier # "unaffordable"
    /\ Len(filteredZipMarkers(state)) < Len(state.zipMarkers)
    /\ state.housingStats # NoRecord

(***************************************************************************)
(* Properties of the loop of calculateMaxHomePrice (SolverSpec).           *)
(***************************************************************************)

(* The bracket of the search lies in [0, 10 * annualIncome].               *)
bracketInRange ==
    /\ 0 <= low
    /\ low <= high
    /\ high <= 10 * inputs.annualIncome

(* An amount in cents rounded to the whole dollar, halves up.              *)
wholeDollars(cents) == ((cents + 50) \div 100) * 100

(* C26: the binary search of calculateMaxHomePrice, once entered, ends     *)
(* after exactly 50 iterations: every step of the loop adds one to the     *)
(* iteration count until it is 50, and the step at 50 returns; at every    *)
(* iteration                                                               *)
(* 0 <= low <= high <= 10 * annualIncome; and the returned price lies in   *)
(* [0, 10 * annualIncome rounded to the whole dollar] for every inputs      *)
(* record with a positive income.                                          *)
C26_SearchBoundedAndInRange ==
    /\ [](pc = "solving" => iter \in 0..SOLVER_ITERATIONS /\ bracketInRange)
    /\ [](pc = "solved" => iter \in {0, SOLVER_ITERATIONS})
    /\ [](pc = "solved" /\ iter = SOLVER_ITERATIONS => bracketInRange)
    /\ [](pc = "solved" /\ ~noIncome(inputs)
             => 0 <= maxPrice /\ maxPrice <= wholeDollars(10 * inputs.annualIncome))
    /\ [][pc = "solving"
             => \/ /\ iter < SOLVER_ITERATIONS
                   /\ iter' = iter + 1
                   /\ pc' = "solving"
                \/ /\ iter = SOLVER_ITERATIONS
                   /\ pc' = "solved"
                   /\ UNCHANGED <<low, high, iter>>]_vars

(* A search that ran its 50 iterations and returned a price strictly       *)
(* inside the range.                                                       *)
C26_Witness ==
    /\ pc = "solved"
    /\ iter = SOLVER_ITERATIONS
    /\ 0 < maxPrice
    /\ maxPrice < 10 * inputs.annualIncome
    /\ low > 0
    /\ high < 10 * inputs.annualIncome


(* C26 as stated: the returned price lies in [0, 10 * annualIncome].       *)
C26_PriceAtMostTenIncomes ==
    pc = "solved" /\ ~noIncome(inputs)
    => 0 <= maxPrice /\ maxPrice <= 10 * inputs.annualIncome


(***************************************************************************)
(* Properties of the counts of getAffordableNationwide (JoinSpec).         *)
(***************************************************************************)

(* The counted records of the state code whose tier is the given one.      *)
recordsOfTier(code, t) ==
    {i \in countedRecords(code) : tierOfRecord(rawTable[i]) = t}

(* C27: for every state summary produced by getAffordableNationwide,       *)
(* affordableCount + stretchCount + unaffordableCount = totalZips: every   *)
(* counted ZIP is in exactly one of the three counts, whatever tier        *)
(* getAffordabilityTier returned for it.                                   *)
C27_CountsAddUp ==
    pc = "nationwide"
    => \A i \in DOMAIN nationwide.states :
          LET s == nationwide.states[i]
          IN  /\ s.affordableCount + s.stretchCount + s.unaffordableCount
                     = s.totalZips
              /\ s.affordableCount
                     = Cardinality(recordsOfTier(s.state, "affordable"))
              /\ s.stretchCount = Cardinality(recordsOfTier(s.state, "stretch"))
              /\ s.unaffordableCount
                     = Cardinality(countedRecords(s.state))
                         - s.affordableCount - s.stretchCount

(* Without an income every tier is unknown: the three counted ZIPs of a    *)
(* state are all in unaffordableCount.                                     *)
C27_Witness ==
    /\ pc = "nationwide"
    /\ inputs.annualIncome = NULL
    /\ \E i \in DOMAIN nationwide.states :
           /\ nationwide.states[i].totalZips = 3
           /\ nationwide.states[i].unaffordableCount = 3
           /\ recordsOfTier(nationwide.states[i].state, "unknown") # {}


(***************************************************************************)
(* The agreement of calculateMaxHomePrice and getAffordabilityTier         *)
(* (SolverSpec).                                                           *)
(***************************************************************************)
ProbeSteps == 8

(* Whole-dollar prices strictly between 0 and the price M: the lowest, the *)
(* two highest, and ProbeSteps - 1 prices spread between them.             *)
probes(M) ==
    {p \in {Dollars(1), M - Dollars(1), M - Dollars(2)}
              \cup {((k * (M \div 100)) \div ProbeSteps) * 100 : k \in 1..(ProbeSteps - 1)} :
        0 < p /\ p < M}

(* C28: with includeSpending false and calculateMaxHomePrice(inputs) = M   *)
(* > 0, every whole-dollar home price p with 0 < p < M is classified       *)
(* affordable by getAffordabilityTier(p, inputs).                          *)
C28_BelowMaxPriceIsAffordable ==
    pc = "solved" /\ maxPrice > 0 /\ ~inputs.includeSpending
    => \A p \in probes(maxPrice) : getAffordabilityTier(p, inputs) = "affordable"

(* A price found inside the bracket: the dollar below it is affordable and *)
(* a thousand dollars above it is not.                                     *)
C28_Witness ==
    /\ pc = "solved"
    /\ ~inputs.includeSpending
    /\ maxPrice > Dollars(1000)
    /\ maxPrice < 10 * inputs.annualIncome
    /\ getAffordabilityTier(maxPrice - Dollars(1), inputs) = "affordable"
    /\ getAffordabilityTier(maxPrice + Dollars(1000), inputs) # "affordable"


(***************************************************************************)
(* Properties of the isochrone requests (CommuteSpec).                     *)
(***************************************************************************)

(* C29: under any interleaving of an address search, travel-mode changes   *)
(* and debounced travel-time changes with the completions of their         *)
(* isochrone requests, once no request is in flight and no timer is        *)
(* pending, the isochrone held in state, when non-null, is the result of   *)
(* the request made for the state's current mode and minutes.              *)
C29_IsochroneMatchesControls ==
    tasks = {} /\ state.isochrone # NoRecord
    => /\ state.isochrone.mode = state.mode
       /\ state.isochrone.minutes = state.minutes


(***************************************************************************)
(* Properties of the reducer under its named actions (ReducerSpec).        *)
(***************************************************************************)

(* C30: in every state reachable through the reducer's named actions, a    *)
(* non-null selectedZipInfo is an entry of the current                     *)
(* housingStats.entries whose zip equals highlightedZip.                   *)
C30_SelectedZipInfoIsCurrent ==
    state.selectedZipInfo # NoRecord
    => /\ state.housingStats # NoRecord
       /\ state.selectedZipInfo \in SeqRange(state.housingStats.entries)
       /\ state.selectedZipInfo.zip = state.highlightedZip

=============================================================================
